---------------------------- MODULE Spec2Model ----------------------------
(***************************************************************************)
(* The Intcode computer of 2019/Python/Challenges/utils/IntcodeComp.py and *)
(* the callers that drive it (Day5.py, Day7.py, Day9.py, Day11.py).        *)
(*                                                                         *)
(* Python objects are modelled with their reference semantics: a list or   *)
(* a deque is an entry of a heap (lists, deques) and a field or a local    *)
(* variable holds the identity of the object, so that aliasing             *)
(* (comp.input_buffer = other.output_buffer) and copying                   *)
(* (self._program.copy()) are what they are in the program.                *)
(*                                                                         *)
(* A Python list of integers of length len is the record                   *)
(* [len |-> len, nz |-> f], f the function from the indices (0-based) of   *)
(* its non-zero items to those items: every list has exactly one such      *)
(* record, so equality of records is equality of lists.                    *)
(*                                                                         *)
(* A Python call that may raise returns [ok, val, err]: Ok(v) or Raise(e). *)
(***************************************************************************)
EXTENDS Integers, Sequences, FiniteSets, TLC

\* ------------------------------------------------------------------ bounds
\* How many times the callers invoke run_program in all.
MaxRuns == 2
\* How many values the caller appends to input buffers in all.
MaxAppends == 2

\* How many times the callers invoke next_output in all.
MaxTaken == 2

\* ------------------------------------------------------- Python primitives
\* None, and an Optional[int] holding v
None == <<>>

Some(v) == <<v>>

Ok(v) == [ok |-> TRUE, val |-> v, err |-> "none"]

Raise(e) == [ok |-> FALSE, val |-> 0, err |-> e]

\* [0] * 2000, the additional memory appended to every program
ExtraMemory == 2000

\* list(...): the list holding the items of the sequence s
list_of(s) ==
    [len |-> Len(s),
     nz  |-> [i \in {j \in 0 .. Len(s) - 1 : s[j + 1] # 0} |-> s[i + 1]]]

\* l + [0] * n
list_extend_zeros(l, n) == [l EXCEPT !.len = l.len + n]

\* The item at a valid non-negative index
list_item(l, i) == IF i \in DOMAIN l.nz THEN l.nz[i] ELSE 0

\* Python's index normalisation: a negative index counts from the end
list_index(l, i) == IF i < 0 THEN i + l.len ELSE i

\* l[i]: IndexError outside -len .. len-1
list_getitem(l, i) ==
    IF i < -l.len \/ i >= l.len
    THEN Raise("IndexError: list index out of range")
    ELSE Ok(list_item(l, list_index(l, i)))

\* l[i] = v: IndexError outside -len .. len-1; the value is the new list
list_setitem(l, i, v) ==
    IF i < -l.len \/ i >= l.len
    THEN Raise("IndexError: list assignment index out of range")
    ELSE LET k == list_index(l, i)
             d == IF v = 0 THEN DOMAIN l.nz \ {k} ELSE DOMAIN l.nz \cup {k}
         IN  Ok([l EXCEPT !.nz = [j \in d |-> IF j = k THEN v ELSE l.nz[j]]])

\* The decimal digits of n >= 0, most significant first, as characters
DigitChars == <<"0", "1", "2", "3", "4", "5", "6", "7", "8", "9">>

RECURSIVE str_nat(_)
str_nat(n) ==
    IF n < 10 THEN <<DigitChars[n + 1]>>
    ELSE str_nat(n \div 10) \o <<DigitChars[(n % 10) + 1]>>

RECURSIVE zeros(_)
zeros(n) == IF n <= 0 THEN <<>> ELSE <<"0">> \o zeros(n - 1)

\* f"{n:05}": sign first, then zeros up to a total width of 5, then the digits
format_05(n) ==
    LET sign == IF n < 0 THEN <<"-">> ELSE <<>>
        digs == str_nat(IF n < 0 THEN -n ELSE n)
    IN  sign \o zeros(5 - Len(sign) - Len(digs)) \o digs

\* The value of one decimal digit character
digit_value(c) == CHOOSE d \in 0 .. 9 : DigitChars[d + 1] = c

RECURSIVE digits_value(_)
digits_value(s) ==
    IF s = <<>> THEN 0
    ELSE 10 * digits_value(SubSeq(s, 1, Len(s) - 1)) + digit_value(s[Len(s)])

IsDigits(s) == s # <<>> /\ \A i \in 1 .. Len(s) : s[i] \in {DigitChars[d] : d \in 1 .. 10}

\* int(s) of a string: digits with an optional leading sign, else ValueError
py_int(s) ==
    IF IsDigits(s) THEN Ok(digits_value(s))
    ELSE IF Len(s) > 1 /\ s[1] = "-" /\ IsDigits(Tail(s)) THEN Ok(-digits_value(Tail(s)))
    ELSE Raise("ValueError: invalid literal for int()")

\* s[-n:]
str_last(s, n) == SubSeq(s, Len(s) - n + 1, Len(s))

\* s[0:-n]
str_drop_last(s, n) == SubSeq(s, 1, Len(s) - n)

\* s[-n]: IndexError when the string is shorter than n
str_from_end(s, n) ==
    IF n > Len(s) THEN Raise("IndexError: string index out of range")
    ELSE Ok(s[Len(s) - n + 1])

\* deque.append(v)
deque_append(d, v) == Append(d, v)

\* deque.pop(): the item removed from the right end
deque_pop(d) ==
    IF d = <<>> THEN Raise("IndexError: pop from an empty deque")
    ELSE Ok([item |-> d[Len(d)], rest |-> SubSeq(d, 1, Len(d) - 1)])

\* deque.popleft(): the item removed and the deque left; IndexError when empty
deque_popleft(d) ==
    IF d = <<>> THEN Raise("IndexError: pop from an empty deque")
    ELSE Ok([item |-> Head(d), rest |-> Tail(d)])

\* ------------------------------------------------------------ enumerations
\* class Parameter(IntEnum)
FIRST == 1
SECOND == 2
THIRD == 3

\* class ParamMode(Enum)
ABSOLUTE == 0
IMMEDIATE == 1
RELATIVE == 2

ParamModes == {ABSOLUTE, IMMEDIATE, RELATIVE}

\* class Opcode(Enum)
ADD == 1
MUL == 2
INP == 3
OUT == 4
JIT == 5
JIF == 6
TLT == 7
TEQ == 8
REF == 9
HLT == 99

Opcodes == {ADD, MUL, INP, OUT, JIT, JIF, TLT, TEQ, REF, HLT}

\* Opcode(value): ValueError when no member has the value
Opcode(value) ==
    IF value \in Opcodes THEN Ok(value)
    ELSE Raise("ValueError: not a valid Opcode")

\* ParamMode(value): ValueError when no member has the value
ParamMode(value) ==
    IF value \in ParamModes THEN Ok(value)
    ELSE Raise("ValueError: not a valid ParamMode")

\* --------------------------------------------------- IntcodeComp, statics
\* The opcode and the parameter modes string of an instruction
_decode_instruction(instruction) ==
    LET s  == format_05(instruction)
        n  == py_int(str_last(s, 2))
        op == Opcode(n.val)
    IN  IF ~n.ok THEN n
        ELSE IF ~op.ok THEN op
        ELSE Ok([opcode |-> op.val, modes |-> str_drop_last(s, 2)])

\* ParamMode(int(modes[-param]))
param_mode(modes, param) ==
    LET c == str_from_end(modes, param)
        d == py_int(<<c.val>>)
    IN  IF ~c.ok THEN c
        ELSE IF ~d.ok THEN d
        ELSE ParamMode(d.val)

\* _get_param taking the parameter itself when no modes are provided
_get_param_plain_immediate(prog, ip, modes, param, ref) ==
    LET x    == list_getitem(prog, ip + param)
        mode == param_mode(modes, param)
    IN  IF ~x.ok THEN x
        ELSE IF modes = None THEN Ok(x.val)
        ELSE IF ~mode.ok THEN mode
        ELSE IF mode.val = ABSOLUTE THEN list_getitem(prog, x.val)
        ELSE IF mode.val = IMMEDIATE THEN Ok(x.val)
        ELSE IF mode.val = RELATIVE THEN list_getitem(prog, x.val + ref)
        ELSE Raise("ValueError: Invalid ParameterMode detected")

\* The value of a parameter, by its mode
_get_param(prog, ip, modes, param, ref) ==
    LET x    == list_getitem(prog, ip + param)
        mode == param_mode(modes, param)
    IN  IF ~x.ok THEN x
        ELSE IF modes = None THEN list_getitem(prog, x.val)
        ELSE IF ~mode.ok THEN mode
        ELSE IF mode.val = ABSOLUTE THEN list_getitem(prog, x.val)
        ELSE IF mode.val = IMMEDIATE THEN Ok(x.val)
        ELSE IF mode.val = RELATIVE THEN list_getitem(prog, x.val + ref)
        ELSE Raise("ValueError: Invalid ParameterMode detected")

\* _get_register with the reference base left out of a relative address
_get_register_no_base(prog, ip, modes, param, ref) ==
    LET x    == list_getitem(prog, ip + param)
        mode == param_mode(modes, param)
    IN  IF ~x.ok THEN x
        ELSE IF modes = None THEN Ok(x.val)
        ELSE IF ~mode.ok THEN mode
        ELSE IF mode.val = IMMEDIATE
             THEN Raise("ValueError: Immediate mode not supported for writes")
        ELSE Ok(x.val)

\* The address a parameter designates for a write, by its mode
_get_register(prog, ip, modes, param, ref) ==
    LET x    == list_getitem(prog, ip + param)
        mode == param_mode(modes, param)
    IN  IF ~x.ok THEN x
        ELSE IF modes = None THEN Ok(x.val)
        ELSE IF ~mode.ok THEN mode
        ELSE IF mode.val = ABSOLUTE THEN Ok(x.val)
        ELSE IF mode.val = IMMEDIATE
             THEN Raise("ValueError: Immediate mode not supported for writes")
        ELSE IF mode.val = RELATIVE THEN Ok(x.val + ref)
        ELSE Raise("ValueError: Invalid ParameterMode detected")

\* What an operation leaves: the exception it raised, or the new instruction
\* pointer with the memory, the reference base and the deque it worked on
Raised(e, prog, ref, buf) ==
    [ok |-> FALSE, err |-> e, ip |-> 0, prog |-> prog, ref |-> ref, buf |-> buf]

Returned(ip, prog, ref, buf) ==
    [ok |-> TRUE, err |-> "none", ip |-> ip, prog |-> prog, ref |-> ref, buf |-> buf]

\* a, b read, c resolved, then prog[c] = value, return ip + 4: the common
\* shape of _add, _mul, _tlt and _teq
store_3(prog, ip, ref, modes, a, b, value) ==
    LET c == _get_register(prog, ip, modes, THIRD, ref)
        w == list_setitem(prog, c.val, value)
    IN  IF ~a.ok THEN Raised(a.err, prog, ref, <<>>)
        ELSE IF ~b.ok THEN Raised(b.err, prog, ref, <<>>)
        ELSE IF ~c.ok THEN Raised(c.err, prog, ref, <<>>)
        ELSE IF ~w.ok THEN Raised(w.err, prog, ref, <<>>)
        ELSE Returned(ip + 4, w.val, ref, <<>>)

_add(prog, ip, ref, modes) ==
    LET a == _get_param(prog, ip, modes, FIRST, ref)
        b == _get_param(prog, ip, modes, SECOND, ref)
    IN  store_3(prog, ip, ref, modes, a, b, a.val + b.val)

\* _mul with the product written through the second parameter
_mul_wrong_register(prog, ip, ref, modes) ==
    LET a == _get_param(prog, ip, modes, FIRST, ref)
        b == _get_param(prog, ip, modes, SECOND, ref)
        c == _get_register(prog, ip, modes, SECOND, ref)
        w == list_setitem(prog, c.val, a.val * b.val)
    IN  IF ~a.ok THEN Raised(a.err, prog, ref, <<>>)
        ELSE IF ~b.ok THEN Raised(b.err, prog, ref, <<>>)
        ELSE IF ~c.ok THEN Raised(c.err, prog, ref, <<>>)
        ELSE IF ~w.ok THEN Raised(w.err, prog, ref, <<>>)
        ELSE Returned(ip + 4, w.val, ref, <<>>)

_mul(prog, ip, ref, modes) ==
    LET a == _get_param(prog, ip, modes, FIRST, ref)
        b == _get_param(prog, ip, modes, SECOND, ref)
    IN  store_3(prog, ip, ref, modes, a, b, a.val * b.val)

_tlt(prog, ip, ref, modes) ==
    LET a == _get_param(prog, ip, modes, FIRST, ref)
        b == _get_param(prog, ip, modes, SECOND, ref)
    IN  store_3(prog, ip, ref, modes, a, b, IF a.val < b.val THEN 1 ELSE 0)

\* _teq with the comparison read as "not greater"
_teq_not_greater(prog, ip, ref, modes) ==
    LET a == _get_param(prog, ip, modes, FIRST, ref)
        b == _get_param(prog, ip, modes, SECOND, ref)
    IN  store_3(prog, ip, ref, modes, a, b, IF a.val <= b.val THEN 1 ELSE 0)

\* _teq that also moves the reference base
_teq_moves_base(prog, ip, ref, modes) ==
    LET a == _get_param(prog, ip, modes, FIRST, ref)
        b == _get_param(prog, ip, modes, SECOND, ref)
    IN  [store_3(prog, ip, ref, modes, a, b, IF a.val = b.val THEN 1 ELSE 0)
            EXCEPT !.ref = @ + 1]

_teq(prog, ip, ref, modes) ==
    LET a == _get_param(prog, ip, modes, FIRST, ref)
        b == _get_param(prog, ip, modes, SECOND, ref)
    IN  store_3(prog, ip, ref, modes, a, b, IF a.val = b.val THEN 1 ELSE 0)

\* _inp raising on an empty input buffer whatever the machine
_inp_check_raise(buffer, threaded) ==
    IF Len(buffer) = 0 THEN "raise" ELSE "inp_pop"

\* _inp waiting on an empty input buffer whatever the machine
_inp_check_wait(buffer, threaded) ==
    IF Len(buffer) = 0 THEN "inp_wait" ELSE "inp_pop"

\* _inp without the test of the buffer's length: the pop is next
_inp_check_none(buffer, threaded) == "inp_pop"

\* _inp, lines 168-175: with an empty input buffer a threaded machine goes
\* to the busy wait and any other raises; else the pop is next
_inp_check(buffer, threaded) ==
    IF Len(buffer) = 0
    THEN IF threaded THEN "inp_wait" ELSE "raise"
    ELSE "inp_pop"

\* The busy wait as a single test: the pop is next whatever the buffer holds
_inp_wait_once(buffer) == "inp_pop"

\* _inp, lines 171-172: one test of the busy wait's condition
_inp_wait(buffer) == IF Len(buffer) = 0 THEN "inp_wait" ELSE "inp_pop"

\* _inp with the buffer popped before the register is resolved
_inp_pop_then_register(prog, ip, ref, modes, buffer) ==
    LET inp == deque_popleft(buffer)
        a   == _get_register(prog, ip, modes, FIRST, ref)
        w   == list_setitem(prog, a.val, inp.val.item)
    IN  IF ~inp.ok THEN Raised(inp.err, prog, ref, buffer)
        ELSE IF ~a.ok THEN Raised(a.err, prog, ref, inp.val.rest)
        ELSE IF ~w.ok THEN Raised(w.err, prog, ref, inp.val.rest)
        ELSE Returned(ip + 2, w.val, ref, inp.val.rest)

\* _inp, lines 177-182: the register is resolved, then the buffer popped,
\* then the value stored
_inp_pop(prog, ip, ref, modes, buffer) ==
    LET a   == _get_register(prog, ip, modes, FIRST, ref)
        inp == deque_popleft(buffer)
        w   == list_setitem(prog, a.val, inp.val.item)
    IN  IF ~a.ok THEN Raised(a.err, prog, ref, buffer)
        ELSE IF ~inp.ok THEN Raised(inp.err, prog, ref, buffer)
        ELSE IF ~w.ok THEN Raised(w.err, prog, ref, inp.val.rest)
        ELSE Returned(ip + 2, w.val, ref, inp.val.rest)

_out(prog, ip, ref, modes, buffer) ==
    LET a == _get_param(prog, ip, modes, FIRST, ref)
    IN  IF ~a.ok THEN Raised(a.err, prog, ref, buffer)
        ELSE Returned(ip + 2, prog, ref, deque_append(buffer, a.val))

\* _jit that never jumps
_jit_falls_through(prog, ip, ref, modes) ==
    LET a == _get_param(prog, ip, modes, FIRST, ref)
        b == _get_param(prog, ip, modes, SECOND, ref)
    IN  IF ~a.ok THEN Raised(a.err, prog, ref, <<>>)
        ELSE IF ~b.ok THEN Raised(b.err, prog, ref, <<>>)
        ELSE Returned(ip + 3, prog, ref, <<>>)

_jit(prog, ip, ref, modes) ==
    LET a == _get_param(prog, ip, modes, FIRST, ref)
        b == _get_param(prog, ip, modes, SECOND, ref)
    IN  IF ~a.ok THEN Raised(a.err, prog, ref, <<>>)
        ELSE IF ~b.ok THEN Raised(b.err, prog, ref, <<>>)
        ELSE Returned(IF a.val # 0 THEN b.val ELSE ip + 3, prog, ref, <<>>)

\* _jif with the reference base lost on the way
_jif_clears_reference(prog, ip, ref, modes) ==
    LET a == _get_param(prog, ip, modes, FIRST, ref)
        b == _get_param(prog, ip, modes, SECOND, ref)
    IN  IF ~a.ok THEN Raised(a.err, prog, ref, <<>>)
        ELSE IF ~b.ok THEN Raised(b.err, prog, ref, <<>>)
        ELSE Returned(IF a.val = 0 THEN b.val ELSE ip + 3, prog, 0, <<>>)

_jif(prog, ip, ref, modes) ==
    LET a == _get_param(prog, ip, modes, FIRST, ref)
        b == _get_param(prog, ip, modes, SECOND, ref)
    IN  IF ~a.ok THEN Raised(a.err, prog, ref, <<>>)
        ELSE IF ~b.ok THEN Raised(b.err, prog, ref, <<>>)
        ELSE Returned(IF a.val = 0 THEN b.val ELSE ip + 3, prog, ref, <<>>)

\* _ref with the reference base set, not adjusted
_ref_assigned(prog, ip, ref, modes) ==
    LET a == _get_param(prog, ip, modes, FIRST, ref)
    IN  IF ~a.ok THEN Raised(a.err, prog, ref, <<>>)
        ELSE Returned(ip + 2, prog, a.val, <<>>)

_ref(prog, ip, ref, modes) ==
    LET a == _get_param(prog, ip, modes, FIRST, ref)
    IN  IF ~a.ok THEN Raised(a.err, prog, ref, <<>>)
        ELSE Returned(ip + 2, prog, ref + a.val, <<>>)

\* ------------------------------------------------------------ the programs
\* Day-2 style: add and multiply in position mode
ProgDay2 == <<1, 9, 10, 3, 2, 3, 11, 0, 99, 30, 40, 50>>

\* Is the input equal to 8 (position mode)
ProgEq8 == <<3, 9, 8, 9, 10, 9, 4, 9, 99, -1, 8>>

\* Outputs a copy of itself
ProgQuine == <<109, 1, 204, -1, 1001, 100, 1, 100, 1008, 100, 16, 101, 1006, 101, 0, 99>>

\* Values the relative base is set to, and parameters read and written
\* relative to it
Bases == {0, 30}

Offsets == {-5, 20}

\* Sets the base to b, in two steps, then reads an input to x relative,
\* doubles it there, tests it against 16 and outputs both cells
ProgRelative(b, x) ==
    <<109, b - 1, 109, 1, 203, x, 22201, x, x, x, 21207, x, 16, x + 1, 204, x, 204, x + 1, 99>>

\* The same program with the literal addresses x + b in position mode
ProgPosition(b, x) ==
    <<109, b - 1, 109, 1, 3, x + b, 1, x + b, x + b, x + b, 1007, x + b, 16, x + b + 1,
      4, x + b, 4, x + b + 1, 99>>

\* Forwards three inputs, the second one only when it is not zero
ProgForward == <<3, 20, 4, 20, 3, 21, 1005, 21, 10, 99, 4, 21, 3, 22, 104, 5, 99>>

\* Outputs 8 then 7, then halts
ProgSource == <<104, 8, 104, 7, 99>>

\* Words that are no instruction: at ip 0, and after one instruction
ProgBadWords == {<<w, 0, 0, 0, 99>> : w \in {0, 10, 98, 100, 1299, 123456, -1, -4, -99, -10}}
                \cup {<<1106, 0, 4, 99, w, 0, 99>> : w \in {77, -3, -104}}

\* A write parameter with the mode digit 1: the third of Add, Multiply,
\* Less-than and Equals, the first of Input
ProgImmediateWrites ==
    {<<11101, 5, 6, 0, 99, 30, 40>>, <<10002, 5, 6, 0, 99, 3, 4>>, <<11107, 5, 6, 0, 99>>,
     <<10008, 5, 5, 7, 99, 1, 1, 0>>, <<103, 0, 99>>}

\* Reads and writes at the last address of the additional memory, then at
\* the first address past it
ProgFar == {<<4, 2004, 4, 2005, 99>>, <<1101, 1, 1, 2008, 1101, 1, 1, 2009, 99>>}

\* Mode digits that are neither 0 nor 1
ProgOtherDigits == {<<304, 2, 99>>, <<204, 2, 99>>, <<1201, 4, 5, 0, 99, 9>>, <<3105, 1, 4, 99, 99>>}

\* A jump whose target is the address of its own first parameter, which
\* holds a halt
ProgJumpInside == {<<1105, 99, 1>>, <<1006, 99, 1>>}

\* A jump to an address below zero: to the cell that is 2003 cells before
\* the end of the memory, which is cell 3, and to the last cell of the memory
ProgNegativeJump == {<<1105, 1, -2003, 104, 5, 99>>, <<1105, 1, -1>>}

\* A jump to itself: the program never reaches a halt
ProgLoop == <<1105, 1, 0, 99>>

\* Addresses below zero: a position parameter of -1 written and read, a
\* relative read at 5 + (-2010), a relative write at 0 + (-1)
ProgNegativeAddress ==
    {<<1101, 5, 0, -1, 4, -1, 99>>,
     <<109, -2010, 204, 5, 99>>,
     <<109, -1, 21101, 5, 0, 0, 4, -1, 99>>}

\* Every operation as a bare opcode: reads x, stores 2x, 2x*x, x < 2x and
\* x = x, adds 1 to the base, jumps over a halt twice and outputs 2x*x
ProgBare ==
    <<3, 40, 1, 40, 40, 41, 2, 41, 40, 42, 7, 40, 41, 43, 8, 40, 40, 44, 9, 43,
      5, 43, 45, 99, 6, 46, 47, 99, 4, 42, 99,
      0, 0, 0, 0, 0, 0, 0, 0, 0, 0, 0, 0, 0, 0, 24, 0, 28>>

\* What the constructor is called with: code, modes, threaded
Args(code, modes, threaded) == [code |-> code, modes |-> modes, threaded |-> threaded]

\* One synchronous machine, as Day5.py and Day9.py build it
SoloSetups ==
    {(1 :> Args(c, TRUE, FALSE)) :
        c \in {ProgDay2, ProgEq8, ProgQuine, ProgForward, ProgLoop} \cup ProgBadWords
              \cup ProgImmediateWrites \cup ProgFar \cup ProgOtherDigits
              \cup ProgJumpInside \cup ProgNegativeJump \cup ProgNegativeAddress}

\* One synchronous machine without parameter modes
PlainSetups == {(1 :> Args(c, FALSE, FALSE)) : c \in {ProgDay2, ProgEq8}}

\* Two synchronous machines, one with relative and one with position operands
RelativeSetups ==
    {(1 :> Args(ProgRelative(b, x), TRUE, FALSE)) @@ (2 :> Args(ProgPosition(b, x), TRUE, FALSE)) :
        b \in Bases, x \in Offsets}

\* One threaded machine, as Day11.py builds it
ThreadedSetups ==
    {(1 :> Args(c, TRUE, TRUE)) : c \in {ProgEq8, ProgForward, <<103, 0, 99>>}}

\* Two threaded machines, as Day7.py builds them
PairSetups ==
    {(1 :> Args(ProgSource, TRUE, TRUE)) @@ (2 :> Args(ProgForward, TRUE, TRUE)),
     (1 :> Args(ProgForward, TRUE, TRUE)) @@ (2 :> Args(ProgForward, TRUE, TRUE))}

\* Two synchronous machines built from one code, without and with parameter modes
BareSetups ==
    {(1 :> Args(c, FALSE, FALSE)) @@ (2 :> Args(c, TRUE, FALSE)) :
        c \in {ProgDay2, ProgEq8, ProgBare}}

Setups ==
    SoloSetups \cup PlainSetups \cup RelativeSetups \cup ThreadedSetups \cup PairSetups
    \cup BareSetups

\* The values callers put in an input buffer
Inputs == {7, 8}

\* The noun and verb run_program is called with: none, both, a noun alone,
\* and a noun that is no address of the memory
NounVerbs == {<<None, None>>, <<Some(10), Some(9)>>, <<Some(0), None>>, <<Some(3000), None>>}

\* The programs whose callers pass a noun and a verb
Overridden == {ProgDay2}

\* ------------------------------------------------------------------- state
VARIABLES
    code,            \* the code each machine was constructed from
    _program,        \* self._program: the identity of a list
    _modes,          \* self._modes
    _threaded,       \* self._threaded
    _input_buffer,   \* self._input_buffer: the identity of a deque
    _output_buffer,  \* self._output_buffer: the identity of a deque
    _reference,      \* self._reference
    lists,           \* the list objects, by identity
    deques,          \* the deque objects, by identity
    pc,              \* where each machine's run_program is
    prog,            \* run_program's local prog: the identity of a list
    ip,              \* run_program's local ip
    error,           \* the exception run_program raised
    call,            \* the arguments of the run in progress, and where it began
    runs,            \* how many times run_program was invoked
    appends,         \* how many values the caller appended
    fed,             \* the deques the caller appended to
    consumed,        \* the values each machine's Input instructions popped
    produced,        \* the values each machine's Output instructions appended
    results,         \* what each finished run of each machine left
    added,           \* the values the callers passed to each machine's add_input
    taken,           \* what each call of a machine's next_output gave its caller
    joined,          \* the machines whose thread the callers have joined
    driver           \* where the caller is in paint_hull of Day11.py

vars == <<code, _program, _modes, _threaded, _input_buffer, _output_buffer, _reference,
          lists, deques, pc, prog, ip, error, call, runs, appends, fed, consumed,
          produced, results, added, taken, joined, driver>>

\* What only the callers of add_input, next_output and Thread.join change
callers == <<added, taken, joined, driver>>

Machines == DOMAIN code

\* The identities of the objects a machine creates
ProgramOf(m) == <<"_program", m>>

InputOf(m) == <<"input", m>>

OutputOf(m) == <<"output", m>>

\* prog = self._program, without the copy: the stored list itself
list_copy_alias(m) == ProgramOf(m)

\* prog = a list every machine runs on
list_copy_shared(m) == <<"prog", 1>>

\* self._program.copy(): a new list with the same items
list_copy(m) == <<"prog", m>>

\* list(map(int, code.split(","))) + ([0] * 2000)
NewProgram(c) == list_extend_zeros(list_of(c), ExtraMemory)

\* The arguments of a run and how much the machine had consumed and produced
\* when it began
NoCall == [noun |-> None, verb |-> None, consumed |-> 0, produced |-> 0]

\* IntcodeComp.__init__, for every machine of the setup, and callers that
\* have called nothing yet
Constructed(setup) ==
    /\ code = [m \in DOMAIN setup |-> setup[m].code]
    /\ _program = [m \in DOMAIN setup |-> ProgramOf(m)]
    /\ _modes = [m \in DOMAIN setup |-> setup[m].modes]
    /\ _threaded = [m \in DOMAIN setup |-> setup[m].threaded]
    /\ _input_buffer = [m \in DOMAIN setup |-> InputOf(m)]
    /\ _output_buffer = [m \in DOMAIN setup |-> OutputOf(m)]
    /\ _reference = [m \in DOMAIN setup |-> 0]
    /\ lists = [i \in {ProgramOf(m) : m \in DOMAIN setup} |-> NewProgram(setup[i[2]].code)]
    /\ deques = [i \in {InputOf(m) : m \in DOMAIN setup} \cup {OutputOf(m) : m \in DOMAIN setup}
                    |-> <<>>]
    /\ pc = [m \in DOMAIN setup |-> "idle"]
    /\ prog = [m \in DOMAIN setup |-> None]
    /\ ip = [m \in DOMAIN setup |-> 0]
    /\ error = [m \in DOMAIN setup |-> "none"]
    /\ call = [m \in DOMAIN setup |-> NoCall]
    /\ runs = 0
    /\ appends = 0
    /\ fed = {}
    /\ consumed = [m \in DOMAIN setup |-> <<>>]
    /\ produced = [m \in DOMAIN setup |-> <<>>]
    /\ results = [m \in DOMAIN setup |-> <<>>]
    /\ added = [m \in DOMAIN setup |-> <<>>]
    /\ taken = [m \in DOMAIN setup |-> <<>>]
    /\ joined = {}
    /\ driver = "none"

Init == \E setup \in Setups : Constructed(setup)

\* ----------------------------------------------------------------- the runs
Running(m) == pc[m] \in {"run", "inp_wait", "inp_pop"}

\* The caller's thread is inside the run_program of a synchronous machine
MainBusy == \E m \in Machines : ~_threaded[m] /\ Running(m)

\* prog[ip] decoded: _decode_instruction with modes, Opcode(prog[ip]) without
Fetch(m) ==
    LET w  == list_getitem(lists[prog[m]], ip[m])
        op == Opcode(w.val)
    IN  IF ~w.ok THEN w
        ELSE IF _modes[m] THEN _decode_instruction(w.val)
        ELSE IF ~op.ok THEN op
        ELSE Ok([opcode |-> op.val, modes |-> None])

\* The machine is at the head of the loop with this opcode decoded
At(m, opcode) == pc[m] = "run" /\ Fetch(m).ok /\ Fetch(m).val.opcode = opcode

Modes(m) == Fetch(m).val.modes

\* What a run that ends now leaves: read in the next state
Result(m, status) ==
    [status    |-> status,
     error     |-> error'[m],
     noun      |-> call[m].noun,
     verb      |-> call[m].verb,
     consumed  |-> SubSeq(consumed'[m], call[m].consumed + 1, Len(consumed'[m])),
     produced  |-> SubSeq(produced'[m], call[m].produced + 1, Len(produced'[m])),
     memory    |-> lists'[prog[m]],
     reference |-> _reference'[m],
     ip        |-> ip'[m],
     output    |-> deques'[_output_buffer[m]]]

\* run_program, lines 341-346: the copy with noun and verb set
run_program_prog(program, noun, verb) ==
    LET n == list_setitem(program, 1, noun[1])
        v == list_setitem(n.val, 2, verb[1])
    IN  IF noun = None THEN Ok(program)
        ELSE IF ~n.ok THEN n
        ELSE IF verb = None THEN n
        ELSE v

\* run_program without line 342: the reference base of the run before
reference_kept(m) == _reference[m]

\* run_program, line 342: self._reference = 0
reference_reset(m) == 0

\* run_program as if it began with self._input_buffer.clear() and
\* self._output_buffer.clear()
run_program_clears(m) ==
    [q \in DOMAIN deques |->
        IF q \in {_input_buffer[m], _output_buffer[m]} THEN <<>> ELSE deques[q]]

\* run_program, lines 340-349: no statement names _input_buffer or
\* _output_buffer before the run loop; the deques are as the caller left them
run_program_deques(m) == deques

\* run_program is invoked: by the caller on a synchronous machine, as the
\* target of a new thread on a threaded one
run_program(m, noun, verb) ==
    LET p == run_program_prog(lists[_program[m]], noun, verb)
    IN  /\ ~Running(m)
        /\ ~MainBusy
        /\ runs < MaxRuns
        /\ noun # None => code[m] \in Overridden /\ ~_threaded[m]
        /\ runs' = runs + 1
        /\ prog' = [prog EXCEPT ![m] = list_copy(m)]
        /\ lists' = (list_copy(m) :> p.val) @@ lists
        /\ _reference' = [_reference EXCEPT ![m] = reference_reset(m)]
        /\ ip' = [ip EXCEPT ![m] = 0]
        /\ pc' = [pc EXCEPT ![m] = "run"]
        /\ error' = [error EXCEPT ![m] = "none"]
        /\ call' = [call EXCEPT ![m] = [noun |-> noun, verb |-> verb,
                                        consumed |-> Len(consumed[m]),
                                        produced |-> Len(produced[m])]]
        /\ deques' = run_program_deques(m)
        /\ UNCHANGED <<callers, code, _program, _modes, _threaded, _input_buffer, _output_buffer,
                       appends, fed, consumed, produced, results>>

\* The exception e leaves run_program
Raises(m, e) ==
    /\ pc' = [pc EXCEPT ![m] = "error"]
    /\ error' = [error EXCEPT ![m] = e]
    /\ results' = [results EXCEPT ![m] = Append(@, Result(m, "error"))]

\* An operation that works on no deque has run and left r
Operated(m, r) ==
    /\ lists' = [lists EXCEPT ![prog[m]] = r.prog]
    /\ _reference' = [_reference EXCEPT ![m] = r.ref]
    /\ UNCHANGED <<callers, code, _program, _modes, _threaded, _input_buffer, _output_buffer,
                   deques, prog, call, runs, appends, fed, consumed, produced>>
    /\ IF r.ok
       THEN /\ ip' = [ip EXCEPT ![m] = r.ip]
            /\ pc' = [pc EXCEPT ![m] = "run"]
            /\ UNCHANGED <<error, results>>
       ELSE /\ UNCHANGED ip
            /\ Raises(m, r.err)

Add(m) == At(m, ADD) /\ Operated(m, _add(lists[prog[m]], ip[m], _reference[m], Modes(m)))

Mul(m) == At(m, MUL) /\ Operated(m, _mul(lists[prog[m]], ip[m], _reference[m], Modes(m)))

Jit(m) == At(m, JIT) /\ Operated(m, _jit(lists[prog[m]], ip[m], _reference[m], Modes(m)))

Jif(m) == At(m, JIF) /\ Operated(m, _jif(lists[prog[m]], ip[m], _reference[m], Modes(m)))

Tlt(m) == At(m, TLT) /\ Operated(m, _tlt(lists[prog[m]], ip[m], _reference[m], Modes(m)))

Teq(m) == At(m, TEQ) /\ Operated(m, _teq(lists[prog[m]], ip[m], _reference[m], Modes(m)))

Ref(m) == At(m, REF) /\ Operated(m, _ref(lists[prog[m]], ip[m], _reference[m], Modes(m)))

\* _inp up to the pop: the test of the input buffer's length
Inp(m) ==
    LET next == _inp_check(deques[_input_buffer[m]], _threaded[m])
    IN  /\ At(m, INP)
        /\ UNCHANGED <<callers, code, _program, _modes, _threaded, _input_buffer, _output_buffer,
                       _reference, lists, deques, prog, ip, call, runs, appends, fed, consumed,
                       produced>>
        /\ IF next = "raise"
           THEN Raises(m, "ValueError: Input buffer empty")
           ELSE /\ pc' = [pc EXCEPT ![m] = next]
                /\ UNCHANGED <<error, results>>

\* One turn of _inp's busy wait
InpWait(m) ==
    /\ pc[m] = "inp_wait"
    /\ pc' = [pc EXCEPT ![m] = _inp_wait(deques[_input_buffer[m]])]
    /\ UNCHANGED <<callers, code, _program, _modes, _threaded, _input_buffer, _output_buffer,
                   _reference, lists, deques, prog, ip, error, call, runs, appends, fed,
                   consumed, produced, results>>

\* _inp from the pop on
InpPop(m) ==
    LET before == deques[_input_buffer[m]]
        r == _inp_pop(lists[prog[m]], ip[m], _reference[m], Modes(m), before)
    IN  /\ pc[m] = "inp_pop"
        /\ lists' = [lists EXCEPT ![prog[m]] = r.prog]
        /\ deques' = [deques EXCEPT ![_input_buffer[m]] = r.buf]
        /\ consumed' = [consumed EXCEPT ![m] =
                            IF r.buf = before THEN @ ELSE Append(@, Head(before))]
        /\ UNCHANGED <<callers, code, _program, _modes, _threaded, _input_buffer, _output_buffer,
                       _reference, prog, call, runs, appends, fed, produced>>
        /\ IF r.ok
           THEN /\ ip' = [ip EXCEPT ![m] = r.ip]
                /\ pc' = [pc EXCEPT ![m] = "run"]
                /\ UNCHANGED <<error, results>>
           ELSE /\ UNCHANGED ip
                /\ Raises(m, r.err)

Out(m) ==
    LET before == deques[_output_buffer[m]]
        r == _out(lists[prog[m]], ip[m], _reference[m], Modes(m), before)
    IN  /\ At(m, OUT)
        /\ deques' = [deques EXCEPT ![_output_buffer[m]] = r.buf]
        /\ produced' = [produced EXCEPT ![m] =
                            IF r.buf = before THEN @ ELSE Append(@, r.buf[Len(r.buf)])]
        /\ UNCHANGED <<callers, code, _program, _modes, _threaded, _input_buffer, _output_buffer,
                       _reference, lists, prog, call, runs, appends, fed, consumed>>
        /\ IF r.ok
           THEN /\ ip' = [ip EXCEPT ![m] = r.ip]
                /\ pc' = [pc EXCEPT ![m] = "run"]
                /\ UNCHANGED <<error, results>>
           ELSE /\ UNCHANGED ip
                /\ Raises(m, r.err)

\* The loop ends at Opcode.HLT and run_program returns prog and the output buffer
Hlt(m) ==
    /\ At(m, HLT)
    /\ pc' = [pc EXCEPT ![m] = "halted"]
    /\ UNCHANGED <<callers, code, _program, _modes, _threaded, _input_buffer, _output_buffer,
                   _reference, lists, deques, prog, ip, error, call, runs, appends, fed,
                   consumed, produced>>
    /\ results' = [results EXCEPT ![m] = Append(@, Result(m, "halted"))]

\* prog[ip] is out of range or decodes to no Opcode: the exception leaves
\* run_program
Undecodable(m) ==
    /\ pc[m] = "run"
    /\ ~Fetch(m).ok
    /\ UNCHANGED <<callers, code, _program, _modes, _threaded, _input_buffer, _output_buffer,
                   _reference, lists, deques, prog, ip, call, runs, appends, fed, consumed,
                   produced>>
    /\ Raises(m, Fetch(m).err)

\* -------------------------------------------------------------- the callers
\* comp.input_buffer.append(v)
AppendInput(m, v) ==
    /\ ~MainBusy
    /\ appends < MaxAppends
    /\ appends' = appends + 1
    /\ fed' = fed \cup {_input_buffer[m]}
    /\ deques' = [deques EXCEPT ![_input_buffer[m]] = deque_append(@, v)]
    /\ UNCHANGED <<callers, code, _program, _modes, _threaded, _input_buffer, _output_buffer,
                   _reference, lists, pc, prog, ip, error, call, runs, consumed, produced,
                   results>>

\* amplifiers[i]: every machine linked to itself
Previous_self(m) == m

\* amplifiers[i - 1]: the machine before m, the last one before the first
Previous(m) == IF m = 1 THEN Cardinality(Machines) ELSE m - 1

\* The input_buffer setter, as the callers use it before any run: the input
\* buffer of a machine becomes the output buffer of the one before it (its own
\* when it is alone)
input_buffer(m, value) ==
    /\ \A n \in Machines : pc[n] = "idle" /\ (_threaded[n] \/ Machines = {n})
    /\ appends = 0
    /\ value = _output_buffer[Previous(m)]
    /\ _input_buffer[m] # value
    /\ _input_buffer' = [_input_buffer EXCEPT ![m] = value]
    /\ UNCHANGED <<callers, code, _program, _modes, _threaded, _output_buffer, _reference, lists,
                   deques, pc, prog, ip, error, call, runs, appends, fed, consumed, produced,
                   results>>

Next ==
    \/ \E m \in Machines, nv \in NounVerbs : run_program(m, nv[1], nv[2])
    \/ \E m \in Machines : Add(m)
    \/ \E m \in Machines : Mul(m)
    \/ \E m \in Machines : Inp(m)
    \/ \E m \in Machines : InpWait(m)
    \/ \E m \in Machines : InpPop(m)
    \/ \E m \in Machines : Out(m)
    \/ \E m \in Machines : Jit(m)
    \/ \E m \in Machines : Jif(m)
    \/ \E m \in Machines : Tlt(m)
    \/ \E m \in Machines : Teq(m)
    \/ \E m \in Machines : Ref(m)
    \/ \E m \in Machines : Hlt(m)
    \/ \E m \in Machines : Undecodable(m)
    \/ \E m \in Machines, v \in Inputs : AppendInput(m, v)
    \/ \E m \in Machines, q \in DOMAIN deques : input_buffer(m, q)

Spec == Init /\ [][Next]_vars

\* ------------------------------------- Utils/IntcodeComp.py, the early VM
\* class ParamMode(IntFlag) of the early VM: one bit for each parameter
ParamMode_NONE == 0
ParamMode_FIRST == 1
ParamMode_SECOND == 2
ParamMode_THIRD == 4

\* ParamMode(value): an IntFlag takes every integer, known bits or not
ParamMode_flags(value) == value

\* flag.bit_length()
RECURSIVE bit_length(_)
bit_length(n) == IF n <= 0 THEN 0 ELSE 1 + bit_length(n \div 2)

\* self & flag == flag, for a flag of one bit and self >= 0
has_flag(self, flag) == (self \div flag) % 2 = 1

\* class Opcode(IntEnum) of the early VM: no REF
Opcode_members == Opcodes \ {REF}

\* Opcode(value) of the early VM
Opcode_early(value) ==
    IF value \in Opcode_members THEN Ok(value)
    ELSE Raise("ValueError: not a valid Opcode")

\* f"{value:06}"
format_06(n) ==
    LET sign == IF n < 0 THEN <<"-">> ELSE <<>>
        digs == str_nat(IF n < 0 THEN -n ELSE n)
    IN  sign \o zeros(6 - Len(sign) - Len(digs)) \o digs

\* s[start:end], end None for the end of the string
str_slice(s, start, end) ==
    LET norm(i) == IF i < 0 THEN (IF i + Len(s) < 0 THEN 0 ELSE i + Len(s))
                   ELSE (IF i > Len(s) THEN Len(s) ELSE i)
        a == norm(start)
        b == IF end = None THEN Len(s) ELSE norm(end[1])
    IN  SubSeq(s, a + 1, b)

\* int(f"{value:06}"[start:end])
_get_digits(value, start, end) == py_int(str_slice(format_06(value), start, end))

\* Opcode.__get_param: the parameter's value, immediate when the flag is set
Opcode__get_param(program, i, modes, param) ==
    LET x == list_getitem(program, i + bit_length(param))
    IN  IF ~x.ok THEN x
        ELSE IF has_flag(modes, param) THEN Ok(x.val)
        ELSE list_getitem(program, x.val)

\* prog[prog[ip + 3]] = value, return ip + 4: the value first, then the
\* address, then the store
Opcode_store(program, i, a, b, value) ==
    LET c == list_getitem(program, i + 3)
        w == list_setitem(program, c.val, value)
    IN  IF ~a.ok THEN Raised(a.err, program, 0, <<>>)
        ELSE IF ~b.ok THEN Raised(b.err, program, 0, <<>>)
        ELSE IF ~c.ok THEN Raised(c.err, program, 0, <<>>)
        ELSE IF ~w.ok THEN Raised(w.err, program, 0, <<>>)
        ELSE Returned(i + 4, w.val, 0, <<>>)

Opcode_add(program, i, modes) ==
    LET a == Opcode__get_param(program, i, modes, ParamMode_FIRST)
        b == Opcode__get_param(program, i, modes, ParamMode_SECOND)
    IN  Opcode_store(program, i, a, b, a.val + b.val)

Opcode_mul(program, i, modes) ==
    LET a == Opcode__get_param(program, i, modes, ParamMode_FIRST)
        b == Opcode__get_param(program, i, modes, ParamMode_SECOND)
    IN  Opcode_store(program, i, a, b, a.val * b.val)

Opcode_tlt(program, i, modes) ==
    LET a == Opcode__get_param(program, i, modes, ParamMode_FIRST)
        b == Opcode__get_param(program, i, modes, ParamMode_SECOND)
    IN  Opcode_store(program, i, a, b, IF a.val < b.val THEN 1 ELSE 0)

Opcode_teq(program, i, modes) ==
    LET a == Opcode__get_param(program, i, modes, ParamMode_FIRST)
        b == Opcode__get_param(program, i, modes, ParamMode_SECOND)
    IN  Opcode_store(program, i, a, b, IF a.val = b.val THEN 1 ELSE 0)

\* prog[prog[ip + 1]] = int(input(...)): the line read is value
Opcode_inp(program, i, modes, value) ==
    LET c == list_getitem(program, i + 1)
        w == list_setitem(program, c.val, value)
    IN  IF ~c.ok THEN Raised(c.err, program, 0, <<>>)
        ELSE IF ~w.ok THEN Raised(w.err, program, 0, <<>>)
        ELSE Returned(i + 2, w.val, 0, <<>>)

\* print(a): buf is what was printed so far
Opcode_out(program, i, modes, buf) ==
    LET a == Opcode__get_param(program, i, modes, ParamMode_FIRST)
    IN  IF ~a.ok THEN Raised(a.err, program, 0, buf)
        ELSE Returned(i + 2, program, 0, Append(buf, a.val))

Opcode_jit(program, i, modes) ==
    LET a == Opcode__get_param(program, i, modes, ParamMode_FIRST)
        b == Opcode__get_param(program, i, modes, ParamMode_SECOND)
    IN  IF ~a.ok THEN Raised(a.err, program, 0, <<>>)
        ELSE IF ~b.ok THEN Raised(b.err, program, 0, <<>>)
        ELSE Returned(IF a.val # 0 THEN b.val ELSE i + 3, program, 0, <<>>)

Opcode_jif(program, i, modes) ==
    LET a == Opcode__get_param(program, i, modes, ParamMode_FIRST)
        b == Opcode__get_param(program, i, modes, ParamMode_SECOND)
    IN  IF ~a.ok THEN Raised(a.err, program, 0, <<>>)
        ELSE IF ~b.ok THEN Raised(b.err, program, 0, <<>>)
        ELSE Returned(IF a.val = 0 THEN b.val ELSE i + 3, program, 0, <<>>)

\* Is the input below 8; is it zero
EarlyTests ==
    {<<3, 3, 1107, -1, 8, 3, 4, 3, 99>>,
     <<3, 12, 6, 12, 15, 1, 13, 14, 13, 4, 13, 99, -1, 0, 1, 9>>,
     <<3, 3, 1105, -1, 9, 1101, 0, 0, 12, 4, 12, 99, 1>>,
     <<1106, 0, 4, 99, 1002, 8, 3, 8, 33>>}

\* Words that are no instruction of the early VM
EarlyBadWords == {<<98, 0, 0>>, <<9, 1, 99>>, <<1234567, 0, 0, 0, 99>>}

\* IntcodeComp(code, modes) of Utils/IntcodeComp.py
EarlySetups ==
    {(1 :> Args(c, TRUE, FALSE)) :
        c \in {ProgDay2, ProgEq8} \cup ProgImmediateWrites \cup ProgOtherDigits
              \cup EarlyTests \cup EarlyBadWords}
    \cup {(1 :> Args(c, FALSE, FALSE)) : c \in {ProgDay2, ProgEq8, <<1002, 4, 3, 4, 33>>}}

\* IntcodeComp.__init__ of the early VM: the program without additional
\* memory, no buffer and no reference base
EarlyConstructed(setup) ==
    /\ code = [m \in DOMAIN setup |-> setup[m].code]
    /\ _program = [m \in DOMAIN setup |-> ProgramOf(m)]
    /\ _modes = [m \in DOMAIN setup |-> setup[m].modes]
    /\ _threaded = [m \in DOMAIN setup |-> FALSE]
    /\ _input_buffer = [m \in DOMAIN setup |-> None]
    /\ _output_buffer = [m \in DOMAIN setup |-> None]
    /\ _reference = [m \in DOMAIN setup |-> 0]
    /\ lists = [i \in {ProgramOf(m) : m \in DOMAIN setup} |-> list_of(setup[i[2]].code)]
    /\ deques = <<>>
    /\ pc = [m \in DOMAIN setup |-> "idle"]
    /\ prog = [m \in DOMAIN setup |-> None]
    /\ ip = [m \in DOMAIN setup |-> 0]
    /\ error = [m \in DOMAIN setup |-> "none"]
    /\ call = [m \in DOMAIN setup |-> NoCall]
    /\ runs = 0
    /\ appends = 0
    /\ fed = {}
    /\ consumed = [m \in DOMAIN setup |-> <<>>]
    /\ produced = [m \in DOMAIN setup |-> <<>>]
    /\ results = [m \in DOMAIN setup |-> <<>>]
    /\ added = [m \in DOMAIN setup |-> <<>>]
    /\ taken = [m \in DOMAIN setup |-> <<>>]
    /\ joined = {}
    /\ driver = "none"

InitEarly == \E setup \in EarlySetups : EarlyConstructed(setup)

\* What the early VM never changes
EarlyFrame ==
    UNCHANGED <<callers, code, _program, _modes, _threaded, _input_buffer, _output_buffer,
                _reference, deques, appends, fed>>

\* The opcode and the flags of prog[ip]: _get_digits with modes,
\* Opcode(prog[ip]) and ParamMode.NONE without
EarlyFetch(m) ==
    LET w  == list_getitem(lists[prog[m]], ip[m])
        d  == IF _modes[m] THEN _get_digits(w.val, -2, None) ELSE Ok(w.val)
        op == Opcode_early(d.val)
        f  == IF _modes[m] THEN _get_digits(w.val, 0, Some(-2)) ELSE Ok(ParamMode_NONE)
    IN  IF ~w.ok THEN w
        ELSE IF ~d.ok THEN d
        ELSE IF ~op.ok THEN op
        ELSE IF ~f.ok THEN f
        ELSE Ok([opcode |-> op.val, modes |-> ParamMode_flags(f.val)])

EarlyAt(m, opcode) == pc[m] = "run" /\ EarlyFetch(m).ok /\ EarlyFetch(m).val.opcode = opcode

EarlyModes(m) == EarlyFetch(m).val.modes

\* What a run of the early VM that ends now leaves: prog[0] is returned when
\* out is set
EarlyResult(m, status) ==
    [status   |-> status,
     error    |-> error'[m],
     noun     |-> call[m].noun,
     verb     |-> call[m].verb,
     consumed |-> SubSeq(consumed'[m], call[m].consumed + 1, Len(consumed'[m])),
     produced |-> SubSeq(produced'[m], call[m].produced + 1, Len(produced'[m])),
     memory   |-> lists'[prog[m]],
     ip       |-> ip'[m],
     value    |-> IF status = "halted" /\ call[m].out
                  THEN Some(list_item(lists'[prog[m]], 0)) ELSE None]

\* run_program(noun, verb, out) of the early VM
EarlyRunProgram(m, noun, verb, out) ==
    LET p == run_program_prog(lists[_program[m]], noun, verb)
    IN  /\ ~Running(m)
        /\ runs < MaxRuns
        /\ noun # None => code[m] \in Overridden
        /\ runs' = runs + 1
        /\ prog' = [prog EXCEPT ![m] = list_copy(m)]
        /\ lists' = (list_copy(m) :> p.val) @@ lists
        /\ ip' = [ip EXCEPT ![m] = 0]
        /\ pc' = [pc EXCEPT ![m] = "run"]
        /\ error' = [error EXCEPT ![m] = "none"]
        /\ call' = [call EXCEPT ![m] = [noun |-> noun, verb |-> verb, out |-> out,
                                        consumed |-> Len(consumed[m]),
                                        produced |-> Len(produced[m])]]
        /\ UNCHANGED <<consumed, produced, results>>
        /\ EarlyFrame

\* An operation of the early VM has run and left r, having read the values
\* read and printed the values printed
EarlyOperated(m, r, read, printed) ==
    /\ lists' = [lists EXCEPT ![prog[m]] = r.prog]
    /\ consumed' = [consumed EXCEPT ![m] = @ \o read]
    /\ produced' = [produced EXCEPT ![m] = @ \o printed]
    /\ UNCHANGED <<prog, call, runs>>
    /\ EarlyFrame
    /\ IF r.ok
       THEN /\ ip' = [ip EXCEPT ![m] = r.ip]
            /\ pc' = [pc EXCEPT ![m] = "run"]
            /\ UNCHANGED <<error, results>>
       ELSE /\ UNCHANGED ip
            /\ pc' = [pc EXCEPT ![m] = "error"]
            /\ error' = [error EXCEPT ![m] = r.err]
            /\ results' = [results EXCEPT ![m] = Append(@, EarlyResult(m, "error"))]

EarlyAdd(m) ==
    EarlyAt(m, ADD) /\ EarlyOperated(m, Opcode_add(lists[prog[m]], ip[m], EarlyModes(m)), <<>>, <<>>)

EarlyMul(m) ==
    EarlyAt(m, MUL) /\ EarlyOperated(m, Opcode_mul(lists[prog[m]], ip[m], EarlyModes(m)), <<>>, <<>>)

EarlyTlt(m) ==
    EarlyAt(m, TLT) /\ EarlyOperated(m, Opcode_tlt(lists[prog[m]], ip[m], EarlyModes(m)), <<>>, <<>>)

EarlyTeq(m) ==
    EarlyAt(m, TEQ) /\ EarlyOperated(m, Opcode_teq(lists[prog[m]], ip[m], EarlyModes(m)), <<>>, <<>>)

EarlyJit(m) ==
    EarlyAt(m, JIT) /\ EarlyOperated(m, Opcode_jit(lists[prog[m]], ip[m], EarlyModes(m)), <<>>, <<>>)

EarlyJif(m) ==
    EarlyAt(m, JIF) /\ EarlyOperated(m, Opcode_jif(lists[prog[m]], ip[m], EarlyModes(m)), <<>>, <<>>)

\* The line input() reads holds the integer value
EarlyInp(m, value) ==
    /\ EarlyAt(m, INP)
    /\ EarlyOperated(m, Opcode_inp(lists[prog[m]], ip[m], EarlyModes(m), value), <<value>>, <<>>)

EarlyOut(m) ==
    LET r == Opcode_out(lists[prog[m]], ip[m], EarlyModes(m), <<>>)
    IN  EarlyAt(m, OUT) /\ EarlyOperated(m, r, <<>>, r.buf)

\* The loop ends at Opcode.HLT
EarlyHlt(m) ==
    /\ EarlyAt(m, HLT)
    /\ pc' = [pc EXCEPT ![m] = "halted"]
    /\ UNCHANGED <<lists, prog, ip, error, call, runs, consumed, produced>>
    /\ EarlyFrame
    /\ results' = [results EXCEPT ![m] = Append(@, EarlyResult(m, "halted"))]

\* prog[ip] is out of range or has no Opcode in its last two digits
EarlyUndecodable(m) ==
    /\ pc[m] = "run"
    /\ ~EarlyFetch(m).ok
    /\ UNCHANGED <<lists, prog, ip, call, runs, consumed, produced>>
    /\ EarlyFrame
    /\ pc' = [pc EXCEPT ![m] = "error"]
    /\ error' = [error EXCEPT ![m] = EarlyFetch(m).err]
    /\ results' = [results EXCEPT ![m] = Append(@, EarlyResult(m, "error"))]

NextEarly ==
    \/ \E m \in Machines, nv \in NounVerbs, out \in BOOLEAN :
           EarlyRunProgram(m, nv[1], nv[2], out)
    \/ \E m \in Machines : EarlyAdd(m)
    \/ \E m \in Machines : EarlyMul(m)
    \/ \E m \in Machines, v \in Inputs : EarlyInp(m, v)
    \/ \E m \in Machines : EarlyOut(m)
    \/ \E m \in Machines : EarlyJit(m)
    \/ \E m \in Machines : EarlyJif(m)
    \/ \E m \in Machines : EarlyTlt(m)
    \/ \E m \in Machines : EarlyTeq(m)
    \/ \E m \in Machines : EarlyHlt(m)
    \/ \E m \in Machines : EarlyUndecodable(m)

SpecEarly == InitEarly /\ [][NextEarly]_vars

\* ----------------------------- the callers of add_input and next_output
\* Reads one input, outputs it and then 5
ProgEcho == <<3, 10, 4, 10, 104, 5, 99>>

\* Reads one input, outputs it and goes on to a word that is no instruction
ProgDies == <<3, 20, 4, 20, 98>>

\* One synchronous machine (Day9.py) or one machine on its own thread
\* (Day11.py, and each amplifier of Day7.py)
CallerSetups ==
    {(1 :> Args(ProgEcho, TRUE, FALSE)),
     (1 :> Args(ProgEcho, TRUE, TRUE)),
     (1 :> Args(ProgForward, TRUE, TRUE)),
     (1 :> Args(<<103, 0, 99>>, TRUE, TRUE)),
     (1 :> Args(ProgDies, TRUE, TRUE))}

InitCallers == \E setup \in CallerSetups : Constructed(setup)

\* The sequences of values one call of add_input is given
InputValues == {<<v>> : v \in Inputs} \cup {<<v, w>> : v, w \in Inputs}

\* add_input with the values put at the head of the queue
add_input_at_head(buffer, values) == values \o buffer

\* add_input(*values): the values, in call order, at the tail of the queue
add_input(buffer, values) == buffer \o values

\* next_output giving the newest value of the queue
next_output_newest(buffer) == deque_pop(buffer)

\* next_output(): the oldest value of the queue, removed; an error when
\* the queue is empty
next_output(buffer) == deque_popleft(buffer)

\* comp.add_input(...)
AddInput(m, values) ==
    /\ ~MainBusy
    /\ appends + Len(values) <= MaxAppends
    /\ appends' = appends + Len(values)
    /\ fed' = fed \cup {_input_buffer[m]}
    /\ deques' = [deques EXCEPT ![_input_buffer[m]] = add_input(@, values)]
    /\ added' = [added EXCEPT ![m] = @ \o values]
    /\ UNCHANGED <<taken, joined, driver, code, _program, _modes, _threaded, _input_buffer,
                   _output_buffer, _reference, lists, pc, prog, ip, error, call, runs,
                   consumed, produced, results>>

\* comp.next_output(): what the caller gets is the value or the error
NextOutput(m) ==
    LET r == next_output(deques[_output_buffer[m]])
    IN  /\ ~MainBusy
        /\ \A n \in Machines : Len(taken[n]) < MaxTaken
        /\ taken' = [taken EXCEPT ![m] = Append(@, IF r.ok THEN Ok(r.val.item) ELSE r)]
        /\ deques' = [deques EXCEPT ![_output_buffer[m]] = IF r.ok THEN r.val.rest ELSE @]
        /\ UNCHANGED <<added, joined, driver, code, _program, _modes, _threaded, _input_buffer,
                       _output_buffer, _reference, lists, pc, prog, ip, error, call, runs,
                       appends, fed, consumed, produced, results>>

\* thread.join(): returns, with no value, once the thread's run_program has
\* ended, by a return or by an exception
Join(m) ==
    /\ _threaded[m]
    /\ pc[m] \in {"halted", "error"}
    /\ m \notin joined
    /\ joined' = joined \cup {m}
    /\ UNCHANGED <<added, taken, driver, code, _program, _modes, _threaded, _input_buffer,
                   _output_buffer, _reference, lists, deques, pc, prog, ip, error, call, runs,
                   appends, fed, consumed, produced, results>>

\* The operations the programs of CallerSetups are made of, and the callers
NextCallers ==
    \/ \E m \in Machines : run_program(m, None, None)
    \/ \E m \in Machines : Inp(m)
    \/ \E m \in Machines : InpWait(m)
    \/ \E m \in Machines : InpPop(m)
    \/ \E m \in Machines : Out(m)
    \/ \E m \in Machines : Jit(m)
    \/ \E m \in Machines : Hlt(m)
    \/ \E m \in Machines : Undecodable(m)
    \/ \E m \in Machines, values \in InputValues : AddInput(m, values)
    \/ \E m \in Machines : NextOutput(m)
    \/ \E m \in Machines : Join(m)

SpecCallers == InitCallers /\ [][NextCallers]_vars

\* ------------------------------------------- integers of unbounded size
\* A Python int that is not negative, as its digits in base Limb, the
\* lowest first and no zero at the top: 0 is <<>>
Limb == 10000

RECURSIVE int_of(_)
int_of(n) == IF n = 0 THEN <<>> ELSE <<n % Limb>> \o int_of(n \div Limb)

\* The value as a number of the model, for values below Limb * Limb
int_small(x) ==
    IF Len(x) = 0 THEN 0
    ELSE IF Len(x) = 1 THEN x[1]
    ELSE x[1] + Limb * x[2]

RECURSIVE int_norm(_)
int_norm(x) ==
    IF x = <<>> THEN <<>>
    ELSE IF x[Len(x)] = 0 THEN int_norm(SubSeq(x, 1, Len(x) - 1))
    ELSE x

RECURSIVE add_limbs(_, _, _)
add_limbs(a, b, carry) ==
    IF a = <<>> /\ b = <<>> THEN (IF carry = 0 THEN <<>> ELSE <<carry>>)
    ELSE LET x == IF a = <<>> THEN 0 ELSE Head(a)
             y == IF b = <<>> THEN 0 ELSE Head(b)
             t == x + y + carry
         IN  <<t % Limb>> \o add_limbs(IF a = <<>> THEN <<>> ELSE Tail(a),
                                       IF b = <<>> THEN <<>> ELSE Tail(b),
                                       t \div Limb)

\* a + b
int_add(a, b) == int_norm(add_limbs(a, b, 0))

RECURSIVE mul_limb(_, _, _)
mul_limb(b, d, carry) ==
    IF b = <<>> THEN (IF carry = 0 THEN <<>> ELSE <<carry>>)
    ELSE LET t == Head(b) * d + carry
         IN  <<t % Limb>> \o mul_limb(Tail(b), d, t \div Limb)

RECURSIVE mul_limbs(_, _)
mul_limbs(a, b) ==
    IF a = <<>> THEN <<>>
    ELSE add_limbs(mul_limb(b, Head(a), 0), <<0>> \o mul_limbs(Tail(a), b), 0)

\* a * b kept in a word of two limbs, the higher limbs lost
int_mul_wrapped(a, b) == int_norm(SubSeq(mul_limbs(a, b) \o <<0, 0>>, 1, 2))

\* a * b
int_mul(a, b) == int_norm(mul_limbs(a, b))

\* list(map(int, code.split(","))) + ([0] * 2000), for such integers
wide_list(s) == [len |-> Len(s) + ExtraMemory, nz |-> [i \in 0 .. Len(s) - 1 |-> s[i + 1]]]

wide_index(l, x) == IF Len(x) > 2 THEN l.len ELSE int_small(x)

\* l[x], the index an integer of the program
wide_getitem(l, x) ==
    IF wide_index(l, x) >= l.len THEN Raise("IndexError: list index out of range")
    ELSE IF wide_index(l, x) \in DOMAIN l.nz THEN Ok(l.nz[wide_index(l, x)])
    ELSE Ok(<<>>)

\* l[x] = v
wide_setitem(l, x, v) ==
    IF wide_index(l, x) >= l.len THEN Raise("IndexError: list assignment index out of range")
    ELSE Ok([l EXCEPT !.nz = (wide_index(l, x) :> v) @@ @])

\* _get_param on a memory of such integers
wide_get_param(program, i, modes, param, ref) ==
    LET x    == wide_getitem(program, int_of(i + param))
        mode == param_mode(modes, param)
    IN  IF ~x.ok THEN x
        ELSE IF ~mode.ok THEN mode
        ELSE IF mode.val = ABSOLUTE THEN wide_getitem(program, x.val)
        ELSE IF mode.val = IMMEDIATE THEN Ok(x.val)
        ELSE wide_getitem(program, int_add(x.val, int_of(ref)))

\* _get_register on a memory of such integers
wide_get_register(program, i, modes, param, ref) ==
    LET x    == wide_getitem(program, int_of(i + param))
        mode == param_mode(modes, param)
    IN  IF ~x.ok THEN x
        ELSE IF ~mode.ok THEN mode
        ELSE IF mode.val = ABSOLUTE THEN Ok(x.val)
        ELSE IF mode.val = IMMEDIATE
             THEN Raise("ValueError: Immediate mode not supported for writes")
        ELSE Ok(int_add(x.val, int_of(ref)))

\* The operands of the wide programs: 0, 1, 9999, 34915192, 99999999,
\* 2147483647 and 1125899906842624
WideOperands ==
    {<<>>, <<1>>, <<9999>>, <<5192, 3491>>, <<9999, 9999>>, <<3647, 4748, 21>>,
     <<2624, 684, 8999, 1125>>}

\* 1102,a,b,7,4,7,99,0
ProgWideMul(a, b) ==
    <<int_of(1102), a, b, int_of(7), int_of(4), int_of(7), int_of(99), int_of(0)>>

\* 1101,a,b,7,4,7,99,0
ProgWideAdd(a, b) ==
    <<int_of(1101), a, b, int_of(7), int_of(4), int_of(7), int_of(99), int_of(0)>>

\* 104,v,99
ProgWideOut(v) == <<int_of(104), v, int_of(99)>>

WidePrograms ==
    {ProgWideMul(a, b) : a, b \in WideOperands}
        \cup {ProgWideAdd(a, b) : a, b \in WideOperands}
        \cup {ProgWideOut(v) : v \in WideOperands}

\* IntcodeComp(code): one synchronous machine
WideConstructed(c) ==
    /\ code = (1 :> c)
    /\ _program = (1 :> ProgramOf(1))
    /\ _modes = (1 :> TRUE)
    /\ _threaded = (1 :> FALSE)
    /\ _input_buffer = (1 :> InputOf(1))
    /\ _output_buffer = (1 :> OutputOf(1))
    /\ _reference = (1 :> 0)
    /\ lists = (ProgramOf(1) :> wide_list(c))
    /\ deques = (InputOf(1) :> <<>>) @@ (OutputOf(1) :> <<>>)
    /\ pc = (1 :> "idle")
    /\ prog = (1 :> None)
    /\ ip = (1 :> 0)
    /\ error = (1 :> "none")
    /\ call = (1 :> NoCall)
    /\ runs = 0
    /\ appends = 0
    /\ fed = {}
    /\ consumed = (1 :> <<>>)
    /\ produced = (1 :> <<>>)
    /\ results = (1 :> <<>>)
    /\ added = (1 :> <<>>)
    /\ taken = (1 :> <<>>)
    /\ joined = {}
    /\ driver = "none"

InitWide == \E c \in WidePrograms : WideConstructed(c)

\* run_program()
WideRun(m) ==
    /\ ~Running(m)
    /\ runs < MaxRuns
    /\ runs' = runs + 1
    /\ prog' = [prog EXCEPT ![m] = list_copy(m)]
    /\ lists' = (list_copy(m) :> lists[_program[m]]) @@ lists
    /\ _reference' = [_reference EXCEPT ![m] = 0]
    /\ ip' = [ip EXCEPT ![m] = 0]
    /\ pc' = [pc EXCEPT ![m] = "run"]
    /\ error' = [error EXCEPT ![m] = "none"]
    /\ UNCHANGED <<callers, code, _program, _modes, _threaded, _input_buffer, _output_buffer,
                   deques, call, appends, fed, consumed, produced, results>>

\* The instruction at ip, decoded
WideFetch(m) == _decode_instruction(int_small(wide_getitem(lists[prog[m]], int_of(ip[m])).val))

WideAt(m, opcode) == pc[m] = "run" /\ WideFetch(m).ok /\ WideFetch(m).val.opcode = opcode

\* What the operations of the wide programs leave unchanged
WideFrame ==
    UNCHANGED <<callers, code, _program, _modes, _threaded, _input_buffer, _output_buffer,
                _reference, prog, call, runs, appends, fed, consumed, results>>

\* _add and _mul: prog[c] = value; return ip + 4
WideStore(m, value) ==
    LET mem == lists[prog[m]]
        c   == wide_get_register(mem, ip[m], WideFetch(m).val.modes, THIRD, _reference[m])
        w   == wide_setitem(mem, c.val, value.val)
    IN  /\ WideFrame
        /\ UNCHANGED <<deques, produced>>
        /\ IF value.ok /\ c.ok /\ w.ok
           THEN /\ lists' = [lists EXCEPT ![prog[m]] = w.val]
                /\ ip' = [ip EXCEPT ![m] = @ + 4]
                /\ UNCHANGED <<pc, error>>
           ELSE /\ pc' = [pc EXCEPT ![m] = "error"]
                /\ error' = [error EXCEPT ![m] = "raised"]
                /\ UNCHANGED <<lists, ip>>

WideAdd(m) ==
    LET mem == lists[prog[m]]
        a   == wide_get_param(mem, ip[m], WideFetch(m).val.modes, FIRST, _reference[m])
        b   == wide_get_param(mem, ip[m], WideFetch(m).val.modes, SECOND, _reference[m])
    IN  /\ WideAt(m, ADD)
        /\ WideStore(m, IF a.ok /\ b.ok THEN Ok(int_add(a.val, b.val)) ELSE Raise("raised"))

WideMul(m) ==
    LET mem == lists[prog[m]]
        a   == wide_get_param(mem, ip[m], WideFetch(m).val.modes, FIRST, _reference[m])
        b   == wide_get_param(mem, ip[m], WideFetch(m).val.modes, SECOND, _reference[m])
    IN  /\ WideAt(m, MUL)
        /\ WideStore(m, IF a.ok /\ b.ok THEN Ok(int_mul(a.val, b.val)) ELSE Raise("raised"))

\* _out: the value appended to the output buffer; return ip + 2
WideOut(m) ==
    LET a == wide_get_param(lists[prog[m]], ip[m], WideFetch(m).val.modes, FIRST, _reference[m])
    IN  /\ WideAt(m, OUT)
        /\ WideFrame
        /\ UNCHANGED lists
        /\ IF a.ok
           THEN /\ deques' = [deques EXCEPT ![_output_buffer[m]] = deque_append(@, a.val)]
                /\ produced' = [produced EXCEPT ![m] = Append(@, a.val)]
                /\ ip' = [ip EXCEPT ![m] = @ + 2]
                /\ UNCHANGED <<pc, error>>
           ELSE /\ pc' = [pc EXCEPT ![m] = "error"]
                /\ error' = [error EXCEPT ![m] = a.err]
                /\ UNCHANGED <<deques, produced, ip>>

WideHlt(m) ==
    /\ WideAt(m, HLT)
    /\ pc' = [pc EXCEPT ![m] = "halted"]
    /\ WideFrame
    /\ UNCHANGED <<lists, deques, produced, ip, error>>

NextWide ==
    \/ \E m \in Machines : WideRun(m)
    \/ \E m \in Machines : WideAdd(m)
    \/ \E m \in Machines : WideMul(m)
    \/ \E m \in Machines : WideOut(m)
    \/ \E m \in Machines : WideHlt(m)

SpecWide == InitWide /\ [][NextWide]_vars

\* ------------------------------------------- the ring of Day7.py, part two
\* range(5): the number of amplifiers
RingSize == 5

\* An amplifier: reads its phase and a signal, outputs their sum
ProgAmplifier == <<3, 11, 3, 12, 1, 11, 12, 12, 4, 12, 99, 0, 0>>

\* [IntcodeComp(line, threaded=True) for _ in range(5)]
RingSetup == [m \in 1 .. RingSize |-> Args(ProgAmplifier, TRUE, TRUE)]

InitRing == Constructed(RingSetup)

\* Two of the permutations of the phases
RingPerms == {<<5, 6, 7, 8, 9>>, <<9, 7, 8, 5, 6>>}

\* The linking loop has gone through every amplifier
RingLinked == \A m \in Machines : _input_buffer[m] # InputOf(m)

\* for i in range(5): amplifiers[i].input_buffer = amplifiers[i - 1].output_buffer
RingLink(m) ==
    /\ \A n \in Machines : n < m => _input_buffer[n] # InputOf(n)
    /\ _input_buffer[m] = InputOf(m)
    /\ input_buffer(m, _output_buffer[Previous(m)])

\* What the caller adds for amplifier m: its phase, and 0 after it for the first
RingValues(perm, m) == IF m = 1 THEN <<perm[m], 0>> ELSE <<perm[m]>>

\* for i in range(5): amplifiers[i].add_input(perm[i]), then
\* amplifiers[0].add_input(0), before any thread exists
RingPhases(perm) ==
    /\ RingLinked
    /\ \A m \in Machines : pc[m] = "idle" /\ added[m] = <<>>
    /\ deques' = [q \in DOMAIN deques |->
                     IF \E m \in Machines : _input_buffer[m] = q
                     THEN add_input(deques[q],
                                    RingValues(perm, CHOOSE m \in Machines :
                                                         _input_buffer[m] = q))
                     ELSE deques[q]]
    /\ added' = [m \in Machines |-> RingValues(perm, m)]
    /\ appends' = appends + RingSize + 1
    /\ fed' = fed \cup {_input_buffer[m] : m \in Machines}
    /\ UNCHANGED <<taken, joined, driver, code, _program, _modes, _threaded, _input_buffer,
                   _output_buffer, _reference, lists, pc, prog, ip, error, call, runs,
                   consumed, produced, results>>

\* for thread in threads: thread.start(): run_program begins on the thread
\* of m, the threads before it already running
RingStart(m) ==
    /\ \A n \in Machines : added[n] # <<>>
    /\ pc[m] = "idle"
    /\ \A n \in Machines : n < m => pc[n] # "idle"
    /\ runs' = runs + 1
    /\ prog' = [prog EXCEPT ![m] = list_copy(m)]
    /\ lists' = (list_copy(m) :> lists[_program[m]]) @@ lists
    /\ _reference' = [_reference EXCEPT ![m] = reference_reset(m)]
    /\ ip' = [ip EXCEPT ![m] = 0]
    /\ pc' = [pc EXCEPT ![m] = "run"]
    /\ error' = [error EXCEPT ![m] = "none"]
    /\ call' = [call EXCEPT ![m] = [noun |-> None, verb |-> None,
                                    consumed |-> Len(consumed[m]),
                                    produced |-> Len(produced[m])]]
    /\ UNCHANGED <<callers, code, _program, _modes, _threaded, _input_buffer, _output_buffer,
                   deques, appends, fed, consumed, produced, results>>

\* for thread in threads: thread.join(), once every thread is started
RingJoin(m) ==
    /\ \A n \in Machines : pc[n] # "idle"
    /\ \A n \in Machines : n < m => n \in joined
    /\ Join(m)

\* amplifiers[-1].next_output(), after the joins
RingThrust ==
    /\ joined = Machines
    /\ taken[RingSize] = <<>>
    /\ NextOutput(RingSize)

NextRing ==
    \/ \E m \in Machines : RingLink(m)
    \/ \E perm \in RingPerms : RingPhases(perm)
    \/ \E m \in Machines : RingStart(m)
    \/ \E m \in Machines : Inp(m)
    \/ \E m \in Machines : InpWait(m)
    \/ \E m \in Machines : InpPop(m)
    \/ \E m \in Machines : Add(m)
    \/ \E m \in Machines : Out(m)
    \/ \E m \in Machines : Hlt(m)
    \/ \E m \in Machines : RingJoin(m)
    \/ RingThrust

SpecRing == InitRing /\ [][NextRing]_vars

\* ------------------------------------------------- paint_hull of Day11.py
\* main calls paint_hull twice on the one robot
HullCalls == 2

\* Robots that read a tile and output a colour and a turn, once or twice
ProgRobot == {<<3, 20, 104, 1, 104, 0, 99>>,
              <<3, 20, 104, 1, 104, 0, 3, 20, 104, 0, 104, 1, 99>>}

\* IntcodeComp(f.readline().strip(), threaded=True)
InitHull == \E c \in ProgRobot : Constructed(1 :> Args(c, TRUE, TRUE))

\* thread.is_alive()
is_alive(m) == Running(m)

\* paint_hull up to thread.start(): run_program begins on a new thread
PaintHull ==
    /\ driver \in {"none", "done"}
    /\ runs < HullCalls
    /\ ~Running(1)
    /\ driver' = "add"
    /\ joined' = {}
    /\ runs' = runs + 1
    /\ prog' = [prog EXCEPT ![1] = list_copy(1)]
    /\ lists' = (list_copy(1) :> lists[_program[1]]) @@ lists
    /\ deques' = run_program_deques(1)
    /\ _reference' = [_reference EXCEPT ![1] = reference_reset(1)]
    /\ ip' = [ip EXCEPT ![1] = 0]
    /\ pc' = [pc EXCEPT ![1] = "run"]
    /\ error' = [error EXCEPT ![1] = "none"]
    /\ call' = [call EXCEPT ![1] = [noun |-> None, verb |-> None,
                                    consumed |-> Len(consumed[1]),
                                    produced |-> Len(produced[1])]]
    /\ UNCHANGED <<added, taken, code, _program, _modes, _threaded, _input_buffer,
                   _output_buffer, appends, fed, consumed, produced, results>>

\* What the steps of the driver leave alone
HullFrame ==
    UNCHANGED <<joined, code, _program, _modes, _threaded, _input_buffer, _output_buffer,
                _reference, lists, pc, prog, ip, error, call, runs, consumed, produced,
                results>>

\* robot.add_input(int(hull[position] == white)): the colour of the tile
HullAdd(tile) ==
    /\ driver = "add"
    /\ driver' = "wait"
    /\ deques' = [deques EXCEPT ![_input_buffer[1]] = add_input(@, <<tile>>)]
    /\ added' = [added EXCEPT ![1] = Append(@, tile)]
    /\ appends' = appends + 1
    /\ fed' = fed \cup {_input_buffer[1]}
    /\ UNCHANGED taken
    /\ HullFrame

\* while thread.is_alive() and len(robot.output_buffer) < 2: time.sleep(1E-6)
HullWait ==
    /\ driver = "wait"
    /\ driver' = IF is_alive(1) /\ Len(deques[_output_buffer[1]]) < 2
                 THEN "wait" ELSE "check"
    /\ UNCHANGED <<added, taken, deques, appends, fed>>
    /\ HullFrame

\* if not thread.is_alive(): break
HullCheck ==
    /\ driver = "check"
    /\ driver' = IF ~is_alive(1) THEN "join" ELSE "paint"
    /\ UNCHANGED <<added, taken, deques, appends, fed>>
    /\ HullFrame

\* The two robot.next_output() of one turn of the loop: the colour, then
\* the turn; an empty queue raises and ends paint_hull
HullTake ==
    LET r == next_output(deques[_output_buffer[1]])
    IN  /\ driver \in {"paint", "turn"}
        /\ driver' = IF ~r.ok THEN "raised" ELSE IF driver = "paint" THEN "turn" ELSE "add"
        /\ taken' = [taken EXCEPT ![1] = Append(@, IF r.ok THEN Ok(r.val.item) ELSE r)]
        /\ deques' = [deques EXCEPT ![_output_buffer[1]] = IF r.ok THEN r.val.rest ELSE @]
        /\ UNCHANGED <<added, appends, fed>>
        /\ HullFrame

\* thread.join() and the return
HullJoin ==
    /\ driver = "join"
    /\ ~is_alive(1)
    /\ driver' = "done"
    /\ joined' = {1}
    /\ UNCHANGED <<added, taken, code, _program, _modes, _threaded, _input_buffer,
                   _output_buffer, _reference, lists, deques, pc, prog, ip, error, call, runs,
                   appends, fed, consumed, produced, results>>

NextHull ==
    \/ PaintHull
    \/ \E tile \in {0, 1} : HullAdd(tile)
    \/ HullWait
    \/ HullCheck
    \/ HullTake
    \/ HullJoin
    \/ Inp(1)
    \/ InpWait(1)
    \/ InpPop(1)
    \/ Out(1)
    \/ Hlt(1)

SpecHull == InitHull /\ [][NextHull]_vars

\* ---------------------------------------------------------------- the claims
\* The finished runs of machine m
Finished(m) == {results[m][i] : i \in 1 .. Len(results[m])}

\* Machine m has just executed the instruction at its ip and gone on
Executed(m) == pc[m] \in {"run", "inp_pop"} /\ pc'[m] = "run" /\ ip'[m] # ip[m]

\* The memory ProgDay2 leaves
Day2Final == <<3500, 9, 10, 70, 2, 3, 11, 0, 99, 30, 40, 50>>

C1_Result ==
    \A m \in Machines : \A r \in Finished(m) :
        code[m] = ProgDay2 /\ r.noun = None =>
            /\ r.status = "halted"
            /\ r.memory = NewProgram(Day2Final)
            /\ list_item(r.memory, 0) = 3500

C1_Step ==
    \A m \in Machines :
        pc[m] = "run" /\ Fetch(m).ok /\ Fetch(m).val.opcode \in {ADD, MUL} =>
            LET mem == lists[prog[m]]
                p1  == list_item(mem, ip[m] + 1)
                p2  == list_item(mem, ip[m] + 2)
                p3  == list_item(mem, ip[m] + 3)
                a   == list_item(mem, p1)
                b   == list_item(mem, p2)
                v   == IF Fetch(m).val.opcode = ADD THEN a + b ELSE a * b
            IN  /\ Modes(m) \in {None, <<"0", "0", "0">>}
                /\ ip[m] >= 0 /\ ip[m] + 3 < mem.len
                /\ \A p \in {p1, p2, p3} : p >= 0 /\ p < mem.len
                /\ Executed(m)
                => /\ ip'[m] = ip[m] + 4
                   /\ list_item(lists'[prog[m]], p3) = v
                   /\ \A i \in (DOMAIN mem.nz \cup DOMAIN lists'[prog[m]].nz) \ {p3} :
                          list_item(lists'[prog[m]], i) = list_item(mem, i)

\* C1: one run of 1,9,10,3,2,3,11,0,99,30,40,50 without noun, verb or input
\* halts with 3500 at address 0, and every position-mode Add or Multiply
\* that executes writes memory[p1] + memory[p2], resp. memory[p1] * memory[p2],
\* to address p3 and to no other cell, and moves ip by 4.
C1_Day2AddMul == []C1_Result /\ [][C1_Step]_vars

C1_Witness ==
    \E m \in Machines : \E r \in Finished(m) :
        code[m] = ProgDay2 /\ r.noun = None /\ r.status = "halted" /\ r.consumed = <<>>

\* C2: every run of 3,9,8,9,10,9,4,9,99,-1,8 that finds an input value v
\* halts having consumed v alone and produced exactly one output, 1 when
\* v = 8 and 0 otherwise; a run ends otherwise only for want of an input.
C2_Equals8 ==
    \A m \in Machines : \A r \in Finished(m) :
        code[m] = ProgEq8 =>
            \/ /\ r.status = "halted"
               /\ Len(r.consumed) = 1
               /\ r.produced = <<IF r.consumed[1] = 8 THEN 1 ELSE 0>>
            \/ /\ r.status = "error"
               /\ r.error = "ValueError: Input buffer empty"
               /\ r.consumed = <<>>
               /\ r.produced = <<>>

C2_Witness ==
    \E m \in Machines :
        /\ code[m] = ProgEq8
        /\ \E r \in Finished(m) : r.consumed = <<8>> /\ r.produced = <<1>>
        /\ \E r \in Finished(m) : r.consumed = <<7>> /\ r.produced = <<0>>

\* C3: a run of the quine halts having produced its own 16 values in
\* program order, whatever its input buffer holds (it reads none), and the
\* output buffer holds exactly these values after the first run when the
\* callers put nothing in it.
C3_Quine ==
    \A m \in Machines :
        code[m] = ProgQuine =>
            /\ \A r \in Finished(m) :
                   r.status = "halted" /\ r.produced = ProgQuine /\ r.consumed = <<>>
            /\ Len(results[m]) >= 1 /\ _output_buffer[m] \notin fed =>
                   results[m][1].output = ProgQuine

C3_Witness ==
    \E m \in Machines :
        /\ code[m] = ProgQuine
        /\ pc[m] = "halted"
        /\ Len(results[m]) = 1
        /\ deques[_input_buffer[m]] = <<>>
        /\ deques[_output_buffer[m]] = ProgQuine

\* The items of a list from index n on
Data(l, n) == [i \in {j \in DOMAIN l.nz : j >= n} |-> l.nz[i]]

\* C4: for every base b set through opcode 9 and every parameter x, the
\* program that reads and writes relative to the base and the program with the
\* literal addresses x + b in position mode, given the same input, end alike:
\* same outcome, same outputs, same reference base and the same memory
\* outside the program text.
C4_RelativeAsPosition ==
    \A b \in Bases, x \in Offsets :
        Machines = {1, 2} /\ code[1] = ProgRelative(b, x) /\ code[2] = ProgPosition(b, x) =>
            \A r1 \in Finished(1), r2 \in Finished(2) :
                r1.consumed = r2.consumed =>
                    /\ r1.status = r2.status
                    /\ r1.produced = r2.produced
                    /\ r1.reference = r2.reference
                    /\ r1.ip = r2.ip
                    /\ Data(r1.memory, Len(code[1])) = Data(r2.memory, Len(code[2]))

C4_Witness ==
    /\ Machines = {1, 2}
    /\ code[1] = ProgRelative(30, -5)
    /\ \E r1 \in Finished(1), r2 \in Finished(2) :
           /\ r1.consumed = <<7>> /\ r2.consumed = <<7>>
           /\ r1.status = "halted" /\ r2.status = "halted"
           /\ r1.produced = <<14, 1>>
           /\ list_item(r1.memory, 25) = 14

\* Two halted runs of one machine, with the same noun and verb, that consumed
\* the same input values
C5_SameRuns(m, i, j) ==
    /\ i < j
    /\ results[m][i].status = "halted" /\ results[m][j].status = "halted"
    /\ results[m][i].noun = results[m][j].noun
    /\ results[m][i].verb = results[m][j].verb
    /\ results[m][i].consumed = results[m][j].consumed

C6_StoredProgramKept ==
    \A m \in Machines :
        /\ lists[_program[m]] = NewProgram(code[m])
        /\ prog[m] # _program[m]

C6_Witness ==
    \E m \in Machines : \E r1, r2 \in Finished(m) :
        /\ r1.status = "error"
        /\ r2.status = "halted"
        /\ r2.noun # None
        /\ r2.memory # NewProgram(code[m])
        /\ lists[_program[m]] = NewProgram(code[m])

\* The register an Input at pc "inp_pop" writes through
InputTarget(m) == _get_register(lists[prog[m]], ip[m], Modes(m), FIRST, _reference[m])

C7_Step ==
    \A m \in Machines :
        LET q   == deques[_input_buffer[m]]
            mem == lists[prog[m]]
        IN  _threaded[m] =>
            \* on an empty queue: no error, ip and memory as they are
            /\ (At(m, INP) \/ pc[m] = "inp_wait") /\ q = <<>> =>
                   /\ pc'[m] \in {pc[m], "inp_wait"}
                   /\ error'[m] = "none"
                   /\ results'[m] = results[m]
                   /\ ip'[m] = ip[m]
                   /\ lists'[prog'[m]] = mem
            \* the wait ends only for the pop
            /\ pc[m] = "inp_wait" /\ pc'[m] # "inp_wait" =>
                   /\ q # <<>>
                   /\ pc'[m] = "inp_pop"
                   /\ ip'[m] = ip[m]
                   /\ lists'[prog'[m]] = mem
            \* the pop takes the head, stores it and moves ip by 2
            /\ pc[m] = "inp_pop" /\ pc'[m] # "inp_pop" /\ q # <<>>
               /\ InputTarget(m).ok /\ list_getitem(mem, InputTarget(m).val).ok =>
                   /\ pc'[m] = "run"
                   /\ ip'[m] = ip[m] + 2
                   /\ deques'[_input_buffer[m]] = Tail(q)
                   /\ consumed'[m] = Append(consumed[m], Head(q))
                   /\ lists'[prog[m]] = list_setitem(mem, InputTarget(m).val, Head(q)).val

\* C7: a threaded machine at an Input with an empty input buffer raises no
\* error and keeps its ip and memory while the buffer is empty; it leaves the
\* wait only when the buffer holds a value, and then the Input (its target a
\* Position or Relative address of the memory) pops that value from the head,
\* stores it at the target and moves ip by 2.
C7_ThreadedInputWaits == [][C7_Step]_vars

C7_Witness ==
    \E m \in Machines :
        /\ _threaded[m]
        /\ pc[m] = "inp_wait"
        /\ deques[_input_buffer[m]] # <<>>

C8_Step ==
    \A m \in Machines :
        ~_threaded[m] =>
            /\ At(m, INP) /\ deques[_input_buffer[m]] = <<>> /\ pc'[m] # pc[m] =>
                   /\ pc'[m] = "error"
                   /\ error'[m] = "ValueError: Input buffer empty"
                   /\ ip'[m] = ip[m]
                   /\ lists' = lists
                   /\ deques' = deques
                   /\ consumed' = consumed
                   /\ results'[m][Len(results'[m])].status = "error"
            /\ pc[m] = "error" /\ runs' = runs =>
                   /\ pc'[m] = "error"
                   /\ ip'[m] = ip[m]
                   /\ lists'[prog'[m]] = lists[prog[m]]
            /\ pc'[m] # "inp_wait"

\* C8: a synchronous machine at an Input with an empty input buffer raises
\* "Input buffer empty" at its next step: it never waits, no cell, buffer or
\* ip changes, and the run that raised goes no further.
C8_SynchronousInputRaises == [][C8_Step]_vars

C8_Witness ==
    \E m \in Machines :
        /\ ~_threaded[m]
        /\ pc[m] = "error"
        /\ error[m] = "ValueError: Input buffer empty"
        /\ deques[_input_buffer[m]] = <<>>

\* Machine a's output buffer is machine b's input buffer, both run on threads
\* of their own and only a appends to the buffer
C9_Chained(a, b) ==
    /\ a # b
    /\ _threaded[a] /\ _threaded[b]
    /\ _input_buffer[b] = _output_buffer[a]
    /\ _output_buffer[a] \notin fed

\* C9: with A's output buffer aliased as B's input buffer, at every moment
\* of every interleaving what B has consumed, followed by what the buffer
\* holds, is what A has produced: B consumes a prefix of A's outputs, in
\* order, and no value is lost or duplicated.
C9_ChainedInOrder ==
    \A a, b \in Machines :
        C9_Chained(a, b) =>
            /\ consumed[b] \o deques[_output_buffer[a]] = produced[a]
            /\ Len(consumed[b]) <= Len(produced[a])
            /\ SubSeq(produced[a], 1, Len(consumed[b])) = consumed[b]

C9_Witness ==
    \E a, b \in Machines :
        /\ C9_Chained(a, b)
        /\ Len(consumed[b]) >= 2
        /\ Len(produced[a]) > Len(consumed[b])
        /\ Running(a) /\ Running(b)

\* C10: at an instruction word w whose opcode w mod 100 is none of 1..9 and
\* 99, a machine with parameter modes does nothing but raise: no operation
\* runs for the word.
C10_Step ==
    \A m \in Machines :
        /\ pc[m] = "run" /\ _modes[m]
        /\ list_getitem(lists[prog[m]], ip[m]).ok
        /\ (list_getitem(lists[prog[m]], ip[m]).val % 100) \notin Opcodes
        /\ pc'[m] # pc[m] \/ ip'[m] # ip[m]
        => /\ pc'[m] = "error"
           /\ ip'[m] = ip[m]
           /\ lists' = lists
           /\ deques' = deques

C10_InvalidWordRaises == [][C10_Step]_vars

\* The word at ip is a writing operation whose write parameter (the third of
\* Add, Multiply, Less-than and Equals, the first of Input) has the mode digit 1
ImmediateWrite(m) ==
    LET w == list_getitem(lists[prog[m]], ip[m])
        k == IF w.val % 100 = INP THEN 1 ELSE 3
    IN  /\ Running(m) /\ _modes[m]
        /\ w.ok /\ w.val >= 0
        /\ (w.val % 100) \in {ADD, MUL, INP, TLT, TEQ}
        /\ (w.val \div (IF k = 1 THEN 100 ELSE 10000)) % 10 = IMMEDIATE

C11_Step ==
    \A m \in Machines :
        ImmediateWrite(m) =>
            /\ lists'[prog[m]] = lists[prog[m]]
            /\ ip'[m] = ip[m]
            /\ pc'[m] \in {pc[m], "inp_wait", "inp_pop", "error"}
            /\ pc'[m] = "error" => error'[m] # "none"

\* C11: a machine at a writing operation whose write parameter has the
\* Immediate mode writes no memory cell and does not go on to the next
\* instruction: the operation ends, when it ends, with an error.
C11_ImmediateWriteFails == [][C11_Step]_vars

C12_Step ==
    \A m \in Machines :
        \* a run begins
        /\ ~Running(m) /\ Running(m)' =>
               /\ _reference'[m] = 0
               /\ ip'[m] = 0
        \* from one instruction to the next
        /\ Running(m) /\ ~At(m, REF) => _reference'[m] = _reference[m]
        /\ At(m, REF) =>
               LET a == _get_param(lists[prog[m]], ip[m], Modes(m), FIRST, _reference[m])
               IN  _reference'[m] = IF a.ok /\ ip'[m] # ip[m]
                                    THEN _reference[m] + a.val ELSE _reference[m]

\* C12: the relative base is zero when a run begins, whatever the run before
\* left in it, and during a run no step changes it but an Adjust-relative-base,
\* which adds its parameter to it.
C12_ReferenceResetAndKept == [][C12_Step]_vars

C12_Witness ==
    \E m \in Machines :
        /\ Len(results[m]) = 1
        /\ results[m][1].reference # 0
        /\ pc[m] = "run" /\ ip[m] = 0
        /\ _reference[m] = 0

\* The parameters an operation reads, and the one it writes through
Reads(opcode) ==
    IF opcode \in {ADD, MUL, TLT, TEQ, JIT, JIF} THEN {FIRST, SECOND}
    ELSE IF opcode \in {OUT, REF} THEN {FIRST}
    ELSE {}

Writes(opcode) ==
    IF opcode \in {ADD, MUL, TLT, TEQ} THEN {THIRD}
    ELSE IF opcode = INP THEN {FIRST}
    ELSE {}

\* The address parameter k of the instruction at ip designates: none when its
\* mode is Immediate
Address(m, k) == _get_register(lists[prog[m]], ip[m], Modes(m), k, _reference[m])

\* Machine m is about to execute an operation whose accesses are all at
\* addresses >= 0 (an Input with a value to pop)
Accessing(m) ==
    /\ pc[m] \in {"run", "inp_pop"}
    /\ Fetch(m).ok
    /\ LET op  == Fetch(m).val.opcode
           mem == lists[prog[m]]
       IN  /\ \/ pc[m] = "run" /\ op \notin {INP, HLT}
              \/ pc[m] = "inp_pop" /\ deques[_input_buffer[m]] # <<>>
           /\ \A k \in Reads(op) \cup Writes(op) :
                  /\ list_getitem(mem, ip[m] + k).ok
                  /\ Modes(m) = None \/ param_mode(Modes(m), k).ok
                  /\ Address(m, k).ok => Address(m, k).val >= 0
           /\ \A k \in Writes(op) : Address(m, k).ok

C13_Step ==
    \A m \in Machines :
        Accessing(m) /\ (pc'[m] # pc[m] \/ ip'[m] # ip[m]) =>
            LET op  == Fetch(m).val.opcode
                mem == lists[prog[m]]
            IN  /\ pc'[m] = "run"
                /\ \A k \in Reads(op) :
                       Address(m, k).ok /\ Address(m, k).val >= Len(code[m])
                       /\ Address(m, k).val \notin DOMAIN mem.nz =>
                           _get_param(mem, ip[m], Modes(m), k, _reference[m]) = Ok(0)
                /\ \A k \in Writes(op) :
                       Address(m, k).val >= Len(code[m]) =>
                           Address(m, k).val \in DOMAIN lists'[prog[m]].nz
                           \/ list_item(lists'[prog[m]], Address(m, k).val) = 0

\* C13: an operation whose addresses are all >= 0 always executes: a read
\* at an address past the loaded program that was never written gives 0 and a
\* write there stores its value, however large the address.
C13_UnboundedMemory == [][C13_Step]_vars

\* C14: add_input puts its values, in call order, at the tail of the input
\* queue and the input operation takes from the head: on a machine whose
\* input queue no machine writes its outputs to, the values consumed so far
\* followed by the values still queued are the values added so far, so the
\* k-th value consumed is the k-th value added.
C14_AddedThenConsumed ==
    \A m \in Machines :
        (\A n \in Machines : _output_buffer[n] # _input_buffer[m])
            => consumed[m] \o deques[_input_buffer[m]] = added[m]

\* Two different values were added and both were consumed, in that order.
C14_Witness ==
    \E m \in Machines :
        /\ Len(consumed[m]) >= 2
        /\ consumed[m][1] # consumed[m][2]
        /\ added[m] = consumed[m]

\* The number of values next_output has returned to the callers of m
TakenValues(m) == Len(SelectSeq(taken[m], LAMBDA r : r.ok))

\* C15: a call of next_output on a non-empty output queue returns the
\* oldest value of the queue, which is the earliest output of the machine
\* not yet returned, and removes it; on an empty output queue the call
\* fails and the queue stays empty.
C15_Step ==
    \A m \in Machines :
        taken'[m] # taken[m] =>
            LET q == deques[_output_buffer[m]]
                r == taken'[m][Len(taken'[m])]
            IN  /\ taken'[m] = Append(taken[m], r)
                /\ produced' = produced
                /\ IF q # <<>>
                   THEN /\ r = Ok(Head(q))
                        /\ r.val = produced[m][TakenValues(m) + 1]
                        /\ deques'[_output_buffer[m]] = Tail(q)
                   ELSE /\ ~r.ok
                        /\ deques'[_output_buffer[m]] = q

C15_NextOutputOldest == [][C15_Step]_vars

\* The first output was returned, the next call found the queue empty and
\* failed, and the machine then produced a different output.
C15_Witness ==
    \E m \in Machines :
        /\ Len(taken[m]) = 2
        /\ Len(produced[m]) >= 2
        /\ taken[m][1] = Ok(produced[m][1])
        /\ ~taken[m][2].ok
        /\ produced[m][1] # produced[m][2]
        /\ deques[_output_buffer[m]] = <<produced[m][2]>>

\* Machine m takes part in the step
Acts(m) ==
    \/ pc'[m] # pc[m]
    \/ ip'[m] # ip[m]
    \/ prog[m] # None /\ lists'[prog[m]] # lists[prog[m]]

\* C16: two machines never share memory: the stored program and the running
\* memory of a machine are lists no other machine holds, and a step of one
\* machine, a memory write included, leaves the stored program and the
\* running memory of every other machine as they were, also for machines
\* constructed from the same code and run in any interleaving.
C16_Step ==
    \A m, n \in Machines :
        m # n =>
            /\ {_program[m], prog[m]} \cap {_program[n], prog[n]} \subseteq {None}
            /\ Acts(m) =>
                /\ lists'[_program[n]] = lists[_program[n]]
                /\ prog'[n] = prog[n]
                /\ prog[n] # None => lists'[prog[n]] = lists[prog[n]]

C16_NoSharedMemory == [][C16_Step]_vars

\* Two machines constructed from the same code are in a run together, each
\* having written a different value at the same address of its own memory.
C16_Witness ==
    \E m, n \in Machines :
        /\ m # n
        /\ code[m] = code[n]
        /\ Running(m)
        /\ Running(n)
        /\ \E a \in 0 .. Len(code[m]) + 5 :
            /\ list_item(lists[prog[m]], a) = 7
            /\ list_item(lists[prog[n]], a) = 8
            /\ list_item(lists[_program[m]], a) = 0

\* C17: a fatal condition aborts the run at the failing instruction, with
\* ip and memory as the instruction found them, and what the caller gets
\* is an error: on a machine that runs on its own thread, the join of that
\* thread does not return as after a normal completion when the run has
\* failed.
C17_Step ==
    \A m \in Machines :
        /\ pc[m] # "error" /\ pc'[m] = "error" =>
            /\ ip'[m] = ip[m]
            /\ lists'[prog[m]] = lists[prog[m]]
            /\ error'[m] # "none"
        /\ m \in joined' \ joined => pc[m] # "error"

C17_FailureSurfaces == [][C17_Step]_vars

\* C18: integer values are never truncated or wrapped: every run of
\* 1102,34915192,34915192,7,4,7,99,0 that has halted has output one value,
\* exactly 1219070632396864, and every run of 104,1125899906842624,99
\* exactly 1125899906842624.
C18_ExactIntegers ==
    \A m \in Machines :
        pc[m] = "halted" =>
            /\ code[m] = ProgWideMul(<<5192, 3491>>, <<5192, 3491>>)
                   => /\ Len(produced[m]) = runs
                      /\ \A k \in 1 .. runs : produced[m][k] = <<6864, 3239, 706, 1219>>
            /\ code[m] = ProgWideOut(<<2624, 684, 8999, 1125>>)
                   => /\ Len(produced[m]) = runs
                      /\ \A k \in 1 .. runs : produced[m][k] = <<2624, 684, 8999, 1125>>

\* The multiplication program has halted after one run with its product in
\* the output queue.
C18_Witness ==
    \E m \in Machines :
        /\ pc[m] = "halted"
        /\ runs = 1
        /\ code[m] = ProgWideMul(<<5192, 3491>>, <<5192, 3491>>)
        /\ produced[m] = <<<<6864, 3239, 706, 1219>>>>
        /\ deques[_output_buffer[m]] = produced[m]

\* The decimal digit of the word w that stands for parameter k: hundreds for
\* parameter 1, thousands for 2, ten-thousands for 3
Digit(w, k) == (w \div (IF k = 1 THEN 100 ELSE IF k = 2 THEN 1000 ELSE 10000)) % 10

\* The word at the ip of a machine
Word(m) == list_getitem(lists[prog[m]], ip[m])

\* The value of parameter k when its mode is the digit of the word: 0 by
\* address, 1 the parameter itself, 2 by address from the reference base,
\* and an error for any other digit
ByDigit(m, k) ==
    LET mem == lists[prog[m]]
        x   == list_getitem(mem, ip[m] + k)
        d   == Digit(Word(m).val, k)
    IN  IF ~x.ok THEN x
        ELSE IF d = 0 THEN list_getitem(mem, x.val)
        ELSE IF d = 1 THEN Ok(x.val)
        ELSE IF d = 2 THEN list_getitem(mem, x.val + _reference[m])
        ELSE Raise("ValueError: no such mode")

\* The address of the write parameter when it is not Immediate
TargetByDigit(m) ==
    LET x == list_item(lists[prog[m]], ip[m] + 3)
    IN  IF Digit(Word(m).val, 3) = 2 THEN x + _reference[m] ELSE x

\* What Add, Multiply, Less-than and Equals store
Stored(opcode, a, b) ==
    IF opcode = ADD THEN a + b
    ELSE IF opcode = MUL THEN a * b
    ELSE IF opcode = TLT THEN (IF a < b THEN 1 ELSE 0)
    ELSE (IF a = b THEN 1 ELSE 0)

\* C19: on a machine that decodes modes, at a word w >= 0 whose two lowest
\* decimal digits are an operation that reads parameters, the operation
\* executed is that one and the value it takes for parameter k is the one
\* the decimal digit of w at place 10^(k+1) gives (0 Position, also when
\* the digit is missing, 1 Immediate, 2 Relative); any other digit on a
\* parameter it reads ends the run with an error.
C19_Step ==
    \A m \in Machines :
        (pc[m] = "run" /\ _modes[m] /\ Acts(m) /\ Word(m).ok /\ Word(m).val >= 0) =>
            LET op == Word(m).val % 100
                a  == ByDigit(m, 1)
                b  == ByDigit(m, 2)
            IN  /\ (op = OUT) =>
                       IF a.ok THEN /\ produced'[m] = Append(produced[m], a.val)
                                    /\ ip'[m] = ip[m] + 2
                       ELSE pc'[m] = "error"
                /\ (op \in {JIT, JIF}) =>
                       IF a.ok /\ b.ok
                       THEN ip'[m] = (IF (a.val # 0) = (op = JIT) THEN b.val ELSE ip[m] + 3)
                       ELSE pc'[m] = "error"
                /\ (op \in {ADD, MUL, TLT, TEQ}) =>
                       IF a.ok /\ b.ok
                       THEN \/ pc'[m] = "error"
                            \/ lists'[prog[m]] =
                                   list_setitem(lists[prog[m]], TargetByDigit(m),
                                                Stored(op, a.val, b.val)).val
                       ELSE pc'[m] = "error"
                /\ (op = REF /\ pc'[m] # "error") =>
                       a.ok /\ _reference'[m] = _reference[m] + a.val

C19_DecodeByDigits == [][C19_Step]_vars

\* Machine m completes an operation in the step: it was in the loop, or at
\* the pop of an input, it is in the loop after, and something of it changed
Completes(m) ==
    /\ pc[m] \in {"run", "inp_pop"}
    /\ pc'[m] = "run"
    /\ \/ pc[m] = "inp_pop"
       \/ ip'[m] # ip[m]
       \/ lists'[prog[m]] # lists[prog[m]]
       \/ produced'[m] # produced[m]
       \/ _reference'[m] # _reference[m]

\* The opcode of the operation m is at
OpcodeAt(m) == Fetch(m).val.opcode

\* The value of parameter k of the operation m is at
ParamAt(m, k) == _get_param(lists[prog[m]], ip[m], Modes(m), k, _reference[m]).val

\* The ip an operation leaves: old ip + 4 for Add, Multiply, Less-than and
\* Equals, old ip + 2 for Input, Output and Adjust-relative-base, and for the
\* jumps parameter 2 when the test on parameter 1 succeeds, else old ip + 3
NextIp(m) ==
    LET op == OpcodeAt(m)
    IN  IF op \in {ADD, MUL, TLT, TEQ} THEN ip[m] + 4
        ELSE IF op \in {INP, OUT, REF} THEN ip[m] + 2
        ELSE IF op = JIT THEN (IF ParamAt(m, 1) # 0 THEN ParamAt(m, 2) ELSE ip[m] + 3)
        ELSE IF ParamAt(m, 1) = 0 THEN ParamAt(m, 2) ELSE ip[m] + 3

\* The addresses of the parameters of the operation m is at
ParamsAt(m) ==
    LET op == OpcodeAt(m)
    IN  IF op \in {ADD, MUL, TLT, TEQ} THEN ip[m] + 1 .. ip[m] + 3
        ELSE IF op \in {JIT, JIF} THEN ip[m] + 1 .. ip[m] + 2
        ELSE ip[m] + 1 .. ip[m] + 1

\* C20 as stated: after every completed operation ip is the ip of the
\* table, and so it is never the address of a parameter of the operation
\* just executed.
C20_StatedStep ==
    \A m \in Machines :
        Completes(m) => ip'[m] = NextIp(m) /\ ip'[m] \notin ParamsAt(m)

C20_NeverInsideParameters == [][C20_StatedStep]_vars

\* C20, amended: after every completed operation ip is the ip of the table;
\* it is the address of a parameter of the operation just executed only
\* after a jump that was taken, whose parameter 2 has that address as its
\* value.
C20_Step ==
    \A m \in Machines :
        Completes(m) =>
            /\ ip'[m] = NextIp(m)
            /\ ip'[m] \in ParamsAt(m) =>
                   /\ OpcodeAt(m) \in {JIT, JIF}
                   /\ ip'[m] = ParamAt(m, 2)
                   /\ (ParamAt(m, 1) # 0) = (OpcodeAt(m) = JIT)

C20_IpAfterOperation == [][C20_Step]_vars

\* A jump has been taken to the address of its own first parameter, which
\* holds a halt, and the machine has halted there.
C20_Witness ==
    \E m \in Machines :
        /\ code[m] \in ProgJumpInside
        /\ pc[m] = "halted"
        /\ ip[m] = 1

\* C21: the instruction pointer of a machine in a run is never below zero.
C21_IpNonNegative == \A m \in Machines : Running(m) => ip[m] >= 0

\* The memory of m after the step is its memory before with at most the cell
\* at address c changed
OneCell(m, c) ==
    LET mem == lists[prog[m]]
        new == lists'[prog[m]]
    IN  /\ list_getitem(mem, c).ok
        /\ new = list_setitem(mem, c, list_getitem(new, c).val).val

\* The address the write parameter k of the operation m is at designates
RegisterAt(m, k) == _get_register(lists[prog[m]], ip[m], Modes(m), k, _reference[m]).val

\* C22: a completed operation changes only what its table row names. Add,
\* Multiply, Less-than and Equals change the cell of the write target and
\* ip; Input changes the cell of its write target, takes the head of the
\* input queue and changes ip; Output appends one value to the output queue
\* and changes ip; the jumps change only ip; Adjust-relative-base changes
\* the relative base and ip. The other cells, the stored program, the
\* relative base and the queues are as before (the input and the output
\* queue of the machine being two queues).
C22_Step ==
    \A m \in Machines :
        Completes(m) =>
            LET op  == IF pc[m] = "inp_pop" THEN INP ELSE OpcodeAt(m)
                inq == deques[_input_buffer[m]]
                ouq == deques[_output_buffer[m]]
                two == _input_buffer[m] # _output_buffer[m]
            IN  /\ lists'[_program[m]] = lists[_program[m]]
                /\ prog'[m] = prog[m]
                /\ \A q \in DOMAIN deques \ {_input_buffer[m], _output_buffer[m]} :
                       deques'[q] = deques[q]
                /\ (op \in {ADD, MUL, TLT, TEQ}) =>
                       /\ OneCell(m, RegisterAt(m, 3))
                       /\ _reference'[m] = _reference[m]
                       /\ deques' = deques
                /\ (op = INP) =>
                       /\ OneCell(m, RegisterAt(m, 1))
                       /\ _reference'[m] = _reference[m]
                       /\ inq # <<>>
                       /\ deques'[_input_buffer[m]] = Tail(inq)
                       /\ two => deques'[_output_buffer[m]] = ouq
                /\ (op = OUT) =>
                       /\ lists'[prog[m]] = lists[prog[m]]
                       /\ _reference'[m] = _reference[m]
                       /\ Len(deques'[_output_buffer[m]]) = Len(ouq) + 1
                       /\ SubSeq(deques'[_output_buffer[m]], 1, Len(ouq)) = ouq
                       /\ two => deques'[_input_buffer[m]] = inq
                /\ (op \in {JIT, JIF}) =>
                       /\ lists'[prog[m]] = lists[prog[m]]
                       /\ _reference'[m] = _reference[m]
                       /\ deques' = deques
                /\ (op = REF) =>
                       /\ lists'[prog[m]] = lists[prog[m]]
                       /\ deques' = deques

C22_OnlyTheTableRow == [][C22_Step]_vars

\* The quine has halted after the operations of its loop (Adjust-relative-
\* base, Output, Add, Equals, Jump-if-false) with its sixteen words output.
C22_Witness ==
    \E m \in Machines :
        /\ code[m] = ProgQuine
        /\ pc[m] = "halted"
        /\ produced[m] = ProgQuine

\* C23: a run returns normally only in a step taken at a word that decodes
\* to Halt, and that step changes no memory and no queue: what is returned
\* is the memory and the output queue of that moment. A program that jumps
\* to itself for ever has never returned or failed. A machine on its own
\* thread that waits on an empty input queue stays in the wait: it leaves
\* it only for the pop, and only once the queue holds a value.
C23_Step ==
    \A m \in Machines :
        /\ (pc[m] # "halted" /\ pc'[m] = "halted") =>
               /\ At(m, HLT)
               /\ lists' = lists
               /\ deques' = deques
               /\ ip'[m] = ip[m]
               /\ results'[m][Len(results'[m])].memory = lists[prog[m]]
        /\ code[m] = ProgLoop => pc'[m] \in {"idle", "run"} /\ results'[m] = <<>>
        /\ pc[m] = "inp_wait" =>
               /\ _threaded[m]
               /\ pc'[m] \in {"inp_wait", "inp_pop"}
               /\ pc'[m] = "inp_pop" => deques[_input_buffer[m]] # <<>>
               /\ error'[m] = "none"
               /\ results'[m] = results[m]

C23_ReturnsOnlyAtHalt == [][C23_Step]_vars

\* A machine on its own thread has output a value and waits on its empty
\* input queue, no value being left to give it.
C23_Witness ==
    \E m \in Machines :
        /\ _threaded[m]
        /\ pc[m] = "inp_wait"
        /\ deques[_input_buffer[m]] = <<>>
        /\ produced[m] # <<>>
        /\ appends = MaxAppends

\* C24: when the machine is the only one that takes values from its input
\* queue, whatever is appended to the queue meanwhile, the pop of its Input
\* never finds the queue empty: between the test of the length and the pop
\* the queue holds a value, and no run has failed on a pop from an empty
\* queue.
C24_NoUnderflow ==
    \A m \in Machines :
        (\A n \in Machines \ {m} : _input_buffer[n] # _input_buffer[m]) =>
            /\ pc[m] = "inp_pop" => deques[_input_buffer[m]] # <<>>
            /\ error[m] # "IndexError: pop from an empty deque"

\* A machine on its own thread is between the test and the pop for its second
\* input, on the queue another machine, in its run, writes its outputs to.
C24_Witness ==
    \E m, n \in Machines :
        /\ m # n
        /\ _threaded[m]
        /\ _input_buffer[m] = _output_buffer[n]
        /\ pc[m] = "inp_pop"
        /\ pc[n] = "run"
        /\ Len(consumed[m]) = 1


\* C25: in the ring of five amplifiers of Day7.py the input queue of every
\* amplifier is the very queue that is the output queue of the amplifier before
\* it, the last one coming before the first, so that every one of the five
\* queues is read by exactly one machine and written by exactly one, and none
\* is shared by more than two, from the linking loop to the last next_output.
Readers(q) == {m \in Machines : _input_buffer[m] = q}

Writers(q) == {m \in Machines : _output_buffer[m] = q}

C25_RingOfQueues ==
    /\ \A m \in Machines :
           _input_buffer[m] # InputOf(m) =>
               _input_buffer[m] = _output_buffer[IF m = 1 THEN RingSize ELSE m - 1]
    /\ RingLinked =>
           \A m \in Machines :
               /\ Cardinality(Readers(_output_buffer[m])) = 1
               /\ Cardinality(Writers(_output_buffer[m])) = 1
               /\ Readers(_output_buffer[m]) # {m}
               /\ Readers(InputOf(m)) = {}

C25_Witness ==
    /\ Cardinality(Machines) = RingSize
    /\ RingLinked
    /\ joined = Machines
    /\ \A m \in Machines : pc[m] = "halted" /\ Len(consumed[m]) = 2
    /\ taken[RingSize] = <<Ok(35)>>


\* C26: run_program never clears or resets a queue. The step that begins a run
\* leaves every queue as it is; a queue changes only by an Input of its
\* reader taking its head, an Output of its writer adding one value at its
\* tail, or the caller appending; the queue returned at a halt is the
\* machine's output queue as it then is; and an output queue nobody reads
\* holds everything every run of the machine has produced, in order.
C26_Step ==
    /\ \A m \in Machines :
           ~Running(m) /\ pc'[m] = "run" =>
               /\ deques' = deques
               /\ _input_buffer'[m] = _input_buffer[m]
               /\ _output_buffer'[m] = _output_buffer[m]
    /\ \A q \in DOMAIN deques :
           \/ deques'[q] = deques[q]
           \/ \E m \in Machines :
                  /\ _input_buffer[m] = q
                  /\ pc[m] = "inp_pop"
                  /\ deques[q] # <<>>
                  /\ deques'[q] = Tail(deques[q])
                  /\ consumed'[m] = Append(consumed[m], Head(deques[q]))
           \/ \E m \in Machines :
                  /\ _output_buffer[m] = q
                  /\ At(m, OUT)
                  /\ Len(produced'[m]) = Len(produced[m]) + 1
                  /\ deques'[q] = Append(deques[q], produced'[m][Len(produced'[m])])
           \/ /\ appends' = appends + 1
              /\ Len(deques'[q]) = Len(deques[q]) + 1
              /\ SubSeq(deques'[q], 1, Len(deques[q])) = deques[q]
    /\ \A m \in Machines :
           pc[m] # "halted" /\ pc'[m] = "halted" =>
               /\ deques' = deques
               /\ results'[m][Len(results'[m])].output = deques[_output_buffer[m]]
    /\ \A m \in Machines :
           Readers(_output_buffer[m]) = {} => deques[_output_buffer[m]] = produced[m]

C26_QueuesOutliveRuns == [][C26_Step]_vars

\* A second run has just begun with a value waiting in the input queue and
\* the output of the first run still in the output queue
C26_Witness ==
    \E m \in Machines :
        /\ Len(results[m]) = 1
        /\ results[m][1].status = "halted"
        /\ results[m][1].produced # <<>>
        /\ pc[m] = "run"
        /\ ip[m] = 0
        /\ deques[_input_buffer[m]] # <<>>
        /\ deques[_output_buffer[m]] = results[m][1].output
        /\ deques[_output_buffer[m]] # <<>>


\* C27: in paint_hull, in every interleaving of the robot's thread and the
\* driver's loop, the driver has taken every value the robot has output when
\* it stops after a robot that halted: no output is left unread in the queue.
C27_DriverTakesEveryPair ==
    driver = "done" /\ pc[1] = "halted" =>
        /\ deques[_output_buffer[1]] = <<>>
        /\ [k \in 1 .. Len(taken[1]) |-> taken[1][k].val] = produced[1]


\* The numbers of the parameters of the operation m is at
ParamNumbers(m) ==
    LET op == OpcodeAt(m)
    IN  IF op \in {ADD, MUL, TLT, TEQ} THEN 1 .. 3
        ELSE IF op \in {JIT, JIF} THEN 1 .. 2
        ELSE 1 .. 1

\* The mode of parameter k of the operation m is at
ModeAt(m, k) == IF Modes(m) = None THEN ABSOLUTE ELSE param_mode(Modes(m), k).val

\* The address parameter k designates when its mode is not Immediate
EffectiveAddress(m, k) ==
    LET x == list_getitem(lists[prog[m]], ip[m] + k).val
    IN  IF ModeAt(m, k) = RELATIVE THEN x + _reference[m] ELSE x

\* C28: every memory access of a completed operation is at an effective
\* address >= 0: an operation with a position parameter below zero, or a
\* relative parameter that is below zero with the relative base added, does
\* not complete.
C28_Step ==
    \A m \in Machines :
        Completes(m) =>
            \A k \in ParamNumbers(m) :
                ModeAt(m, k) # IMMEDIATE => EffectiveAddress(m, k) >= 0

C28_AddressNonNegative == [][C28_Step]_vars


\* C29: an Input whose write target is in Immediate mode, reached with a
\* non-empty input queue, fails before any value is removed: the run ends
\* with the error of the write target, and the input queue, the values
\* consumed and the memory are as before.
C29_Step ==
    \A m \in Machines :
        /\ pc[m] = "inp_pop"
        /\ pc'[m] # "inp_pop"
        /\ ModeAt(m, FIRST) = IMMEDIATE
        /\ deques[_input_buffer[m]] # <<>>
        => /\ pc'[m] = "error"
           /\ error'[m] = "ValueError: Immediate mode not supported for writes"
           /\ deques'[_input_buffer[m]] = deques[_input_buffer[m]]
           /\ consumed'[m] = consumed[m]
           /\ lists'[prog[m]] = lists[prog[m]]
           /\ ip'[m] = ip[m]

C29_NothingPopped == [][C29_Step]_vars

C29_Witness ==
    \E m \in Machines :
        /\ code[m] = <<103, 0, 99>>
        /\ pc[m] = "error"
        /\ error[m] = "ValueError: Immediate mode not supported for writes"
        /\ Len(deques[_input_buffer[m]]) = 2
        /\ consumed[m] = <<>>

\* Two machines were built from one code, one without and one with modes
BarePair ==
    /\ Cardinality(Machines) = 2
    /\ code[1] = code[2]
    /\ ~_modes[1]
    /\ _modes[2]

\* The runs of the two machines that began with the same noun and verb and
\* took the same inputs ended alike
C30_SameResults ==
    BarePair =>
        \A i \in 1 .. Len(results[1]) : \A j \in 1 .. Len(results[2]) :
            /\ results[1][i].noun = results[2][j].noun
            /\ results[1][i].verb = results[2][j].verb
            /\ results[1][i].consumed = results[2][j].consumed
            => /\ results[1][i].status = results[2][j].status
               /\ results[1][i].error = results[2][j].error
               /\ results[1][i].memory = results[2][j].memory
               /\ results[1][i].produced = results[2][j].produced
               /\ results[1][i].reference = results[2][j].reference
               /\ results[1][i].ip = results[2][j].ip

\* C30: a program whose executed instruction words are all bare opcodes
\* (1 .. 9 or 99), run without parameter modes and with them from the same
\* inputs, ends with the same final memory, the same outputs and the same
\* relative base. Every word the two machines execute is a bare opcode, and
\* after every step their finished runs agree.
C30_Step ==
    /\ BarePair =>
           \A m \in Machines :
               pc[m] = "run" /\ Word(m).ok => Word(m).val \in (1 .. 9) \cup {99}
    /\ C30_SameResults'

C30_ModesOrNot == [][C30_Step]_vars

C30_Witness ==
    /\ BarePair
    /\ code[1] = ProgBare
    /\ \A m \in Machines :
           /\ Len(results[m]) = 1
           /\ results[m][1].status = "halted"
           /\ results[m][1].consumed = <<8>>
           /\ results[m][1].produced = <<128>>
           /\ results[m][1].reference = 1
           /\ list_item(results[m][1].memory, 43) = 1

=============================================================================
